---------------------------- MODULE Spec2Model ----------------------------
(***************************************************************************)
(* Model of the PKCS#11 trusted application's object/attribute subsystem   *)
(* and mechanism gatekeeper: the template sanitizer                        *)
(* (ta/sks/src/sanitize_object.c), the object builder and the policy       *)
(* checks (pkcs11_attributes.c), and the mechanism catalog                 *)
(* (ta/pkcs11/src/token_capabilities.c).                                   *)
(*                                                                         *)
(* A serialized attribute list (struct obj_attrs and its attrs[] bytes) is *)
(* a sequence of records [id, size, val]: the 32-bit attribute id, the     *)
(* byte size of the value and the value.  A 1-byte and a 4-byte value are  *)
(* the number they hold; a longer value is a token number that names its   *)
(* bytes (for ALLOWED_MECHANISMS, an index into AllowedLists); the value   *)
(* of a template valued attribute is the attribute list it holds.  32-bit  *)
(* values above 0x7fffffff are written as their two's complement           *)
(* (0xffffffff is -1).                                                     *)
(***************************************************************************)
EXTENDS Integers, Sequences, FiniteSets, TLC

VARIABLES
    phase,       \* which step of the modelled command comes next
    template,    \* the client's serialized template (entries in wire order)
    function,    \* enum processing_func of the running command
    parent,      \* parent object's attributes (copy/derive), or NoObject
    temp,        \* the sanitized template built by sanitize_client_object
    out,         \* *out of create_attributes_from_template, or NoObject
    rv,          \* return value of the last command
    mechanism,   \* mechanism id of the session's command
    step,        \* enum processing_step of the last check
    processing,  \* session->processing, or NoProcessing
    key,         \* attributes of the key used by a processing
    trace,       \* the checks of the session's processing: <<step, rv>> each
    heap,        \* number of attribute lists allocated and not freed
    session_state, \* login state and access mode of the session, or NoSession
    db,          \* the handle database (struct handle_db), or NoDatabase
    dt           \* the driver probe lists of dt_driver.c, or NoProbe

vars == <<phase, template, function, parent, temp, out, rv, mechanism, step,
          processing, key, trace, heap, session_state, db, dt>>

-----------------------------------------------------------------------------
(* Bounds of the model *)

\* Longest client template, in entries
MaxTemplateLen == 4

-----------------------------------------------------------------------------
(* pkcs11_ta.h: ABI constants *)

PKCS11_UNDEFINED_ID == -1
PKCS11_FALSE == 0
PKCS11_TRUE == 1

PKCS11_CKR_OK == "CKR_OK"
PKCS11_CKR_GENERAL_ERROR == "CKR_GENERAL_ERROR"
PKCS11_CKR_DEVICE_MEMORY == "CKR_DEVICE_MEMORY"
PKCS11_CKR_KEY_FUNCTION_NOT_PERMITTED == "CKR_KEY_FUNCTION_NOT_PERMITTED"
PKCS11_CKR_MECHANISM_INVALID == "CKR_MECHANISM_INVALID"
PKCS11_CKR_TEMPLATE_INCONSISTENT == "CKR_TEMPLATE_INCONSISTENT"
PKCS11_CKR_USER_NOT_LOGGED_IN == "CKR_USER_NOT_LOGGED_IN"
PKCS11_CKR_BUFFER_TOO_SMALL == "CKR_BUFFER_TOO_SMALL"
PKCS11_RV_NOT_FOUND == "RV_NOT_FOUND"
\* Return codes sanitize_object.c uses under their older names
PKCS11_FAILED == "FAILED"
PKCS11_BAD_PARAM == "BAD_PARAM"
PKCS11_ERROR == "ERROR"
\* Outcome of a failed assert() or of TEE_Panic(): the call does not return
PANIC == "PANIC"

\* enum pkcs11_attr_id
PKCS11_CKA_CLASS == 0
PKCS11_CKA_TOKEN == 1
PKCS11_CKA_PRIVATE == 2
PKCS11_CKA_LABEL == 3
PKCS11_CKA_APPLICATION == 16
PKCS11_CKA_VALUE == 17
PKCS11_CKA_OBJECT_ID == 18
PKCS11_CKA_TRUSTED == 134
PKCS11_CKA_KEY_TYPE == 256
PKCS11_CKA_SUBJECT == 257
PKCS11_CKA_ID == 258
PKCS11_CKA_SENSITIVE == 259
PKCS11_CKA_ENCRYPT == 260
PKCS11_CKA_DECRYPT == 261
PKCS11_CKA_WRAP == 262
PKCS11_CKA_UNWRAP == 263
PKCS11_CKA_SIGN == 264
PKCS11_CKA_SIGN_RECOVER == 265
PKCS11_CKA_VERIFY == 266
PKCS11_CKA_VERIFY_RECOVER == 267
PKCS11_CKA_DERIVE == 268
PKCS11_CKA_START_DATE == 272
PKCS11_CKA_END_DATE == 273
PKCS11_CKA_MODULUS == 288
PKCS11_CKA_MODULUS_BITS == 289
PKCS11_CKA_PUBLIC_EXPONENT == 290
PKCS11_CKA_PRIVATE_EXPONENT == 291
PKCS11_CKA_PRIME_1 == 292
PKCS11_CKA_PRIME_2 == 293
PKCS11_CKA_EXPONENT_1 == 294
PKCS11_CKA_EXPONENT_2 == 295
PKCS11_CKA_COEFFICIENT == 296
PKCS11_CKA_PUBLIC_KEY_INFO == 297
PKCS11_CKA_VALUE_LEN == 353
PKCS11_CKA_EXTRACTABLE == 354
PKCS11_CKA_LOCAL == 355
PKCS11_CKA_NEVER_EXTRACTABLE == 356
PKCS11_CKA_ALWAYS_SENSITIVE == 357
PKCS11_CKA_MODIFIABLE == 368
PKCS11_CKA_COPYABLE == 369
PKCS11_CKA_DESTROYABLE == 370
PKCS11_CKA_EC_PARAMS == 384
PKCS11_CKA_EC_POINT == 385
PKCS11_CKA_ALWAYS_AUTHENTICATE == 514
PKCS11_CKA_WRAP_WITH_TRUSTED == 528
PKCS11_CKA_WRAP_TEMPLATE == 1073742353
PKCS11_CKA_UNWRAP_TEMPLATE == 1073742354
PKCS11_CKA_DERIVE_TEMPLATE == 1073742355
PKCS11_CKA_ALLOWED_MECHANISMS == 1073743360
PKCS11_CKA_EC_POINT_X == -2147479552
PKCS11_CKA_EC_POINT_Y == -2147479551

\* enum pkcs11_class_id
PKCS11_CKO_DATA == 0
PKCS11_CKO_CERTIFICATE == 1
PKCS11_CKO_PUBLIC_KEY == 2
PKCS11_CKO_PRIVATE_KEY == 3
PKCS11_CKO_SECRET_KEY == 4
PKCS11_CKO_MECHANISM == 7
PKCS11_CKO_UNDEFINED_ID == PKCS11_UNDEFINED_ID

\* enum pkcs11_key_type
PKCS11_CKK_RSA == 0
PKCS11_CKK_DSA == 1
PKCS11_CKK_DH == 2
PKCS11_CKK_EC == 3
PKCS11_CKK_GENERIC_SECRET == 16
PKCS11_CKK_AES == 31
PKCS11_CKK_MD5_HMAC == 39
PKCS11_CKK_SHA_1_HMAC == 40
PKCS11_CKK_SHA256_HMAC == 43
PKCS11_CKK_SHA384_HMAC == 44
PKCS11_CKK_SHA512_HMAC == 45
PKCS11_CKK_SHA224_HMAC == 46
PKCS11_CKK_UNDEFINED_ID == PKCS11_UNDEFINED_ID

\* enum processing_func (pkcs11_attributes.h)
PKCS11_FUNCTION_DIGEST == "DIGEST"
PKCS11_FUNCTION_GENERATE == "GENERATE"
PKCS11_FUNCTION_GENERATE_PAIR == "GENERATE_PAIR"
PKCS11_FUNCTION_DERIVE == "DERIVE"
PKCS11_FUNCTION_WRAP == "WRAP"
PKCS11_FUNCTION_UNWRAP == "UNWRAP"
PKCS11_FUNCTION_ENCRYPT == "ENCRYPT"
PKCS11_FUNCTION_DECRYPT == "DECRYPT"
PKCS11_FUNCTION_SIGN == "SIGN"
PKCS11_FUNCTION_VERIFY == "VERIFY"
PKCS11_FUNCTION_SIGN_RECOVER == "SIGN_RECOVER"
PKCS11_FUNCTION_VERIFY_RECOVER == "VERIFY_RECOVER"
PKCS11_FUNCTION_IMPORT == "IMPORT"
PKCS11_FUNCTION_COPY == "COPY"
PKCS11_FUNCTION_MODIFY == "MODIFY"
PKCS11_FUNCTION_DESTROY == "DESTROY"

processing_func ==
    { PKCS11_FUNCTION_DIGEST, PKCS11_FUNCTION_GENERATE,
      PKCS11_FUNCTION_GENERATE_PAIR, PKCS11_FUNCTION_DERIVE,
      PKCS11_FUNCTION_WRAP, PKCS11_FUNCTION_UNWRAP, PKCS11_FUNCTION_ENCRYPT,
      PKCS11_FUNCTION_DECRYPT, PKCS11_FUNCTION_SIGN, PKCS11_FUNCTION_VERIFY,
      PKCS11_FUNCTION_SIGN_RECOVER, PKCS11_FUNCTION_VERIFY_RECOVER,
      PKCS11_FUNCTION_IMPORT, PKCS11_FUNCTION_COPY, PKCS11_FUNCTION_MODIFY,
      PKCS11_FUNCTION_DESTROY }

\* enum processing_step (pkcs11_attributes.h)
PKCS11_FUNC_STEP_INIT == "INIT"
PKCS11_FUNC_STEP_ONESHOT == "ONESHOT"
PKCS11_FUNC_STEP_UPDATE == "UPDATE"
PKCS11_FUNC_STEP_FINAL == "FINAL"

\* init_attributes_head(): an attribute list with no entry
NoObject == << >>

-----------------------------------------------------------------------------
(* attributes.h: serialized attribute lists *)

PKCS11_BOOLPROPS_BASE == 0
PKCS11_BOOLPROPS_MAX_COUNT == 64

\* enum boolprop_attr: the attribute ids in the order of their bit positions
boolprop_attr ==
    << PKCS11_CKA_TOKEN, PKCS11_CKA_PRIVATE, PKCS11_CKA_TRUSTED,
       PKCS11_CKA_SENSITIVE, PKCS11_CKA_ENCRYPT, PKCS11_CKA_DECRYPT,
       PKCS11_CKA_WRAP, PKCS11_CKA_UNWRAP, PKCS11_CKA_SIGN,
       PKCS11_CKA_SIGN_RECOVER, PKCS11_CKA_VERIFY,
       PKCS11_CKA_VERIFY_RECOVER, PKCS11_CKA_DERIVE,
       PKCS11_CKA_EXTRACTABLE, PKCS11_CKA_LOCAL,
       PKCS11_CKA_NEVER_EXTRACTABLE, PKCS11_CKA_ALWAYS_SENSITIVE,
       PKCS11_CKA_MODIFIABLE, PKCS11_CKA_COPYABLE, PKCS11_CKA_DESTROYABLE,
       PKCS11_CKA_ALWAYS_AUTHENTICATE, PKCS11_CKA_WRAP_WITH_TRUSTED >>

\* With(x, Op) is Op(x): it names a result the code keeps in a local variable
With(x, Op(_)) == Op(x)

\* Index of the first entry of head with the given id, 0 when there is none
FirstIndex(head, attribute) ==
    IF \A i \in 1..Len(head) : head[i].id # attribute THEN 0
    ELSE CHOOSE i \in 1..Len(head) :
             /\ head[i].id = attribute
             /\ \A j \in 1..(i - 1) : head[j].id # attribute

\* add_attribute(): append {attribute, size, data} at the tail
add_attribute(head, attribute, data, size) ==
    Append(head, [id |-> attribute, size |-> size, val |-> data])

\* get_attribute_ptr(): the first entry with this id
get_attribute_ptr(head, attribute) ==
    With(FirstIndex(head, attribute), LAMBDA i :
        IF i = 0
        THEN [rc |-> PKCS11_RV_NOT_FOUND, size |-> 0, val |-> 0]
        ELSE [rc |-> PKCS11_CKR_OK, size |-> head[i].size,
              val |-> head[i].val])

\* get_attribute() called with *attr_size = attr_size
get_attribute(head, attribute, attr_size) ==
    With(get_attribute_ptr(head, attribute), LAMBDA p :
        IF p.rc # PKCS11_CKR_OK THEN [rc |-> p.rc, val |-> 0]
        ELSE IF p.size # attr_size
        THEN [rc |-> PKCS11_CKR_BUFFER_TOO_SMALL, val |-> 0]
        ELSE [rc |-> PKCS11_CKR_OK, val |-> p.val])

\* get_bool(): the attribute's value, false when it is not found
get_bool(head, attribute) ==
    With(get_attribute(head, attribute, 1), LAMBDA r :
        r.rc = PKCS11_CKR_OK /\ r.val # PKCS11_FALSE)

get_class(head) ==
    With(get_attribute(head, PKCS11_CKA_CLASS, 4), LAMBDA r :
        IF r.rc # PKCS11_CKR_OK THEN PKCS11_CKO_UNDEFINED_ID ELSE r.val)

get_key_type(head) ==
    With(get_attribute(head, PKCS11_CKA_KEY_TYPE, 4), LAMBDA r :
        IF r.rc # PKCS11_CKR_OK THEN PKCS11_CKK_UNDEFINED_ID ELSE r.val)

get_type(head) == get_key_type(head)

-----------------------------------------------------------------------------
(* pkcs11_helpers: attribute and key type predicates *)

\* pkcs11_attr2boolprop_shift(): bit position of a boolean attribute, or -1
pkcs11_attr2boolprop_shift(attr) ==
    LET hits == { pos \in 1..Len(boolprop_attr) : boolprop_attr[pos] = attr }
    IN  IF hits = {} THEN -1 ELSE (CHOOSE pos \in hits : TRUE) - 1

\* pkcs11_attr_is_class(): byte size of a class attribute, 0 for another id
pkcs11_attr_is_class(attribute_id) ==
    IF attribute_id = PKCS11_CKA_CLASS THEN 4 ELSE 0

\* pkcs11_attr_is_type(): byte size of a type attribute, 0 for another id
pkcs11_attr_is_type(attribute_id) ==
    IF attribute_id = PKCS11_CKA_KEY_TYPE THEN 4 ELSE 0

pkcs11_attr_class_is_key(class) ==
    class \in { PKCS11_CKO_SECRET_KEY, PKCS11_CKO_PUBLIC_KEY,
                PKCS11_CKO_PRIVATE_KEY }

key_type_is_symm_key(id) ==
    id \in { PKCS11_CKK_AES, PKCS11_CKK_GENERIC_SECRET, PKCS11_CKK_MD5_HMAC,
             PKCS11_CKK_SHA_1_HMAC, PKCS11_CKK_SHA224_HMAC,
             PKCS11_CKK_SHA256_HMAC, PKCS11_CKK_SHA384_HMAC,
             PKCS11_CKK_SHA512_HMAC }

key_type_is_asymm_key(id) == id \in { PKCS11_CKK_EC, PKCS11_CKK_RSA }

\* Attribute ids of the Cryptoki catalog whose value has a fixed byte size
FixedSizeAttributes ==
    { PKCS11_CKA_VALUE_LEN, PKCS11_CKA_MODULUS_BITS }

\* Attribute ids of the Cryptoki catalog whose value has any byte size
AnySizeAttributes ==
    { PKCS11_CKA_LABEL, PKCS11_CKA_APPLICATION, PKCS11_CKA_VALUE,
      PKCS11_CKA_OBJECT_ID, PKCS11_CKA_SUBJECT, PKCS11_CKA_ID,
      PKCS11_CKA_START_DATE, PKCS11_CKA_END_DATE, PKCS11_CKA_MODULUS,
      PKCS11_CKA_PUBLIC_EXPONENT, PKCS11_CKA_PRIVATE_EXPONENT,
      PKCS11_CKA_PRIME_1, PKCS11_CKA_PRIME_2, PKCS11_CKA_EXPONENT_1,
      PKCS11_CKA_EXPONENT_2, PKCS11_CKA_COEFFICIENT,
      PKCS11_CKA_PUBLIC_KEY_INFO, PKCS11_CKA_EC_PARAMS, PKCS11_CKA_EC_POINT,
      PKCS11_CKA_ALLOWED_MECHANISMS, PKCS11_CKA_EC_POINT_X,
      PKCS11_CKA_EC_POINT_Y }

\* valid_pkcs11_attribute_id(): a known id with an admissible value size
valid_pkcs11_attribute_id(id, size) ==
    \/ id \in FixedSizeAttributes /\ size = 4
    \/ id \in AnySizeAttributes

-----------------------------------------------------------------------------
(* sanitize_object.c: from a client template to a sanitized attribute list *)

\* sizeof(struct obj_attrs) and sizeof(struct pkcs11_attribute_head)
AttrsHeadSize == 8
AttributeHeadSize == 8

\* head->attrs_size: the bytes the entries of an attribute list take
RECURSIVE attrs_size(_)
attrs_size(head) ==
    IF head = << >> THEN 0
    ELSE AttributeHeadSize + Head(head).size + attrs_size(Tail(head))

\* The client templates a template valued attribute can carry: the value of
\* WRAP_TEMPLATE, UNWRAP_TEMPLATE or DERIVE_TEMPLATE is the attribute list
\* the nested header and entries hold
IndirectTemplates ==
    { << [id |-> PKCS11_CKA_CLASS, size |-> 4, val |-> PKCS11_CKO_DATA],
         [id |-> PKCS11_CKA_LABEL, size |-> 2, val |-> 1] >>,
      << [id |-> PKCS11_CKA_CLASS, size |-> 4, val |-> PKCS11_CKO_DATA],
         [id |-> PKCS11_CKA_SENSITIVE, size |-> 1, val |-> PKCS11_TRUE],
         [id |-> PKCS11_CKA_SENSITIVE, size |-> 1, val |-> PKCS11_TRUE] >>,
      << [id |-> PKCS11_CKA_LABEL, size |-> 2, val |-> 1] >> }

consistent_class_and_type(class, type) ==
    CASE class = PKCS11_CKO_DATA -> TRUE
      [] class = PKCS11_CKO_SECRET_KEY -> key_type_is_symm_key(type)
      [] class \in { PKCS11_CKO_PUBLIC_KEY, PKCS11_CKO_PRIVATE_KEY } ->
            key_type_is_asymm_key(type)
      [] OTHER -> FALSE

sanitize_consistent_class_and_type(attrs) ==
    consistent_class_and_type(get_class(attrs), get_type(attrs))

\* The loop of sanitize_class_and_type() from entry i on
RECURSIVE class_and_type_scan(_, _, _, _)
class_and_type_scan(src, i, class_found, type_found) ==
    IF i > Len(src)
    THEN [rc |-> PKCS11_CKR_OK, class |-> class_found, type |-> type_found]
    ELSE
      LET cli_ref == src[i]
          bad == [rc |-> PKCS11_CKR_TEMPLATE_INCONSISTENT,
                  class |-> class_found, type |-> type_found]
      IN  IF pkcs11_attr_is_class(cli_ref.id) # 0
          THEN IF cli_ref.size # pkcs11_attr_is_class(cli_ref.id) THEN bad
               ELSE IF /\ class_found # PKCS11_CKO_UNDEFINED_ID
                       /\ class_found # cli_ref.val
               THEN bad
               ELSE class_and_type_scan(src, i + 1, cli_ref.val, type_found)
          ELSE IF pkcs11_attr_is_type(cli_ref.id) # 0
          THEN IF cli_ref.size # pkcs11_attr_is_type(cli_ref.id) THEN bad
               ELSE IF /\ type_found # PKCS11_CKK_UNDEFINED_ID
                       /\ type_found # cli_ref.val
               THEN bad
               ELSE class_and_type_scan(src, i + 1, class_found, cli_ref.val)
          ELSE class_and_type_scan(src, i + 1, class_found, type_found)

\* The end of sanitize_class_and_type(): one CLASS, then one KEY_TYPE
add_class_and_type(dst, class_found, type_found) ==
    With(IF class_found # PKCS11_CKO_UNDEFINED_ID
         THEN add_attribute(dst, PKCS11_CKA_CLASS, class_found, 4)
         ELSE dst,
         LAMBDA dst1 :
            IF type_found # PKCS11_CKK_UNDEFINED_ID
            THEN add_attribute(dst1, PKCS11_CKA_KEY_TYPE, type_found, 4)
            ELSE dst1)

sanitize_class_and_type(dst, src) ==
    With(class_and_type_scan(src, 1, PKCS11_CKO_UNDEFINED_ID,
                             PKCS11_CKK_UNDEFINED_ID),
         LAMBDA r :
            IF r.rc # PKCS11_CKR_OK THEN [rc |-> r.rc, dst |-> dst]
            ELSE [rc |-> PKCS11_CKR_OK,
                  dst |-> add_class_and_type(dst, r.class, r.type)])

\* sanitize_boolprop(): boolprops and sanity are the sets of the bit
\* positions set in the two masks
sanitize_boolprop(dst, cli_ref, boolprops, sanity) ==
    With(pkcs11_attr2boolprop_shift(cli_ref.id), LAMBDA shift :
        LET value == (cli_ref.val = PKCS11_TRUE)
            same == [dst |-> dst, boolprops |-> boolprops,
                     sanity |-> sanity]
        IN  IF shift < 0 THEN [rc |-> PKCS11_RV_NOT_FOUND] @@ same
            ELSE IF shift >= PKCS11_BOOLPROPS_MAX_COUNT
            THEN [rc |-> PKCS11_FAILED] @@ same
            ELSE IF shift \in sanity /\ value # (shift \in boolprops)
            THEN [rc |-> PKCS11_CKR_TEMPLATE_INCONSISTENT] @@ same
            ELSE [rc |-> PKCS11_CKR_OK,
                  dst |-> IF shift \notin sanity
                          THEN add_attribute(dst,
                                   PKCS11_BOOLPROPS_BASE + shift,
                                   IF value THEN 1 ELSE 0, 1)
                          ELSE dst,
                  boolprops |-> IF value THEN boolprops \cup {shift}
                                ELSE boolprops \ {shift},
                  sanity |-> sanity \cup {shift}])

\* The loop of sanitize_boolprops() from entry i on
RECURSIVE boolprops_scan(_, _, _, _, _)
boolprops_scan(dst, src, i, boolprops, sanity) ==
    IF i > Len(src) THEN [rc |-> PKCS11_CKR_OK, dst |-> dst]
    ELSE With(sanitize_boolprop(dst, src[i], boolprops, sanity), LAMBDA r :
            IF r.rc # PKCS11_CKR_OK /\ r.rc # PKCS11_RV_NOT_FOUND
            THEN [rc |-> r.rc, dst |-> r.dst]
            ELSE boolprops_scan(r.dst, src, i + 1, r.boolprops, r.sanity))

sanitize_boolprops(dst, src) == boolprops_scan(dst, src, 1, {}, {})

RECURSIVE sanitize_client_object(_, _)

\* sanitize_indirect_attr() yields [rc, dst, heap]: heap counts the lists it
\* leaves allocated, which are the one init_attributes_head(&obj2) allocates
\* and the ones the nested sanitize_client_object(&obj2, ...) leaves; obj2 is
\* not freed on any path
sanitize_indirect_attr(dst, cli_ref) ==
    With(get_class(dst), LAMBDA class :
        IF class = PKCS11_CKO_UNDEFINED_ID
        THEN [rc |-> PKCS11_ERROR, dst |-> dst, heap |-> 0]
        ELSE IF cli_ref.id \notin { PKCS11_CKA_WRAP_TEMPLATE,
                                    PKCS11_CKA_UNWRAP_TEMPLATE,
                                    PKCS11_CKA_DERIVE_TEMPLATE }
        THEN [rc |-> PKCS11_RV_NOT_FOUND, dst |-> dst, heap |-> 0]
        ELSE IF pkcs11_attr_class_is_key(class)
        THEN [rc |-> PKCS11_CKR_TEMPLATE_INCONSISTENT, dst |-> dst,
              heap |-> 0]
        ELSE With(sanitize_client_object(
                      cli_ref.val,
                      cli_ref.size < AttrsHeadSize + attrs_size(cli_ref.val)),
                  LAMBDA r :
                    IF r.rc # PKCS11_CKR_OK
                    THEN [rc |-> r.rc, dst |-> dst, heap |-> 1 + r.heap]
                    ELSE [rc |-> PKCS11_CKR_OK,
                          dst |-> add_attribute(dst, cli_ref.id, r.dst,
                                      AttrsHeadSize + attrs_size(r.dst)),
                          heap |-> 1 + r.heap]))

\* The main loop of sanitize_client_object() from entry i on; heap_ counts
\* the lists allocated so far, *dst among them
RECURSIVE attributes_scan(_, _, _, _)
attributes_scan(dst, src, i, heap_) ==
    IF i > Len(src) THEN [rc |-> PKCS11_CKR_OK, dst |-> dst, heap |-> heap_]
    ELSE
      LET cli_ref == src[i]
      IN  IF \/ pkcs11_attr_is_class(cli_ref.id) # 0
             \/ pkcs11_attr_is_type(cli_ref.id) # 0
             \/ pkcs11_attr2boolprop_shift(cli_ref.id) >= 0
          THEN attributes_scan(dst, src, i + 1, heap_)
          ELSE With(sanitize_indirect_attr(dst, cli_ref), LAMBDA r :
                IF r.rc = PKCS11_CKR_OK
                THEN attributes_scan(r.dst, src, i + 1, heap_ + r.heap)
                ELSE IF r.rc # PKCS11_RV_NOT_FOUND
                THEN [rc |-> r.rc, dst |-> dst, heap |-> heap_ + r.heap]
                ELSE IF ~valid_pkcs11_attribute_id(cli_ref.id, cli_ref.size)
                THEN [rc |-> PKCS11_CKR_TEMPLATE_INCONSISTENT, dst |-> dst,
                      heap |-> heap_]
                ELSE attributes_scan(
                         add_attribute(dst, cli_ref.id, cli_ref.val,
                                       cli_ref.size), src, i + 1, heap_))

\* sanitize_client_object(): too_short tells that size is below the header
\* plus the attrs_size the header declares.  It yields [rc, dst, heap]: heap
\* counts the lists the call leaves allocated, which are *dst, allocated by
\* init_attributes_head(dst) once the size is checked, and the lists the
\* nested templates leave
sanitize_client_object(src, too_short) ==
    IF too_short
    THEN [rc |-> PKCS11_BAD_PARAM, dst |-> NoObject, heap |-> 0]
    ELSE With(sanitize_class_and_type(NoObject, src), LAMBDA a :
            IF a.rc # PKCS11_CKR_OK
            THEN [rc |-> a.rc, dst |-> a.dst, heap |-> 1]
            ELSE With(sanitize_boolprops(a.dst, src), LAMBDA b :
                    IF b.rc # PKCS11_CKR_OK
                    THEN [rc |-> b.rc, dst |-> b.dst, heap |-> 1]
                    ELSE attributes_scan(b.dst, src, 1, 1)))

-----------------------------------------------------------------------------
(* pkcs11_attributes.c: building the attributes of a new object.            *)
(* add_attribute() is taken to find the memory it asks for, so the helpers  *)
(* below that fail on nothing else yield the list they built.               *)

\* pkcs11_object_default_boolprop(): an id outside the two lists makes the
\* code call TEE_Panic(); no attribute table below holds such an id
pkcs11_object_default_boolprop(attribute) ==
    CASE attribute \in { PKCS11_CKA_MODIFIABLE, PKCS11_CKA_COPYABLE,
                         PKCS11_CKA_DESTROYABLE } -> PKCS11_TRUE
      [] attribute \in { PKCS11_CKA_TOKEN, PKCS11_CKA_PRIVATE,
                         PKCS11_CKA_SENSITIVE, PKCS11_CKA_DERIVE,
                         PKCS11_CKA_ENCRYPT, PKCS11_CKA_DECRYPT,
                         PKCS11_CKA_SIGN, PKCS11_CKA_VERIFY,
                         PKCS11_CKA_SIGN_RECOVER, PKCS11_CKA_VERIFY_RECOVER,
                         PKCS11_CKA_WRAP, PKCS11_CKA_UNWRAP,
                         PKCS11_CKA_EXTRACTABLE,
                         PKCS11_CKA_WRAP_WITH_TRUSTED,
                         PKCS11_CKA_ALWAYS_AUTHENTICATE,
                         PKCS11_CKA_TRUSTED } -> PKCS11_FALSE

pkcs11_import_object_boolprop(out_, templ, attribute) ==
    With(get_attribute(templ, attribute, 1), LAMBDA r :
        add_attribute(out_, attribute,
                      IF r.rc # PKCS11_CKR_OK \/ r.val = 0
                      THEN pkcs11_object_default_boolprop(attribute)
                      ELSE r.val,
                      1))

RECURSIVE set_mandatory_boolprops(_, _, _)
set_mandatory_boolprops(out_, temp_, bp) ==
    IF bp = << >> THEN out_
    ELSE set_mandatory_boolprops(
             pkcs11_import_object_boolprop(out_, temp_, Head(bp)),
             temp_, Tail(bp))

RECURSIVE set_mandatory_attributes(_, _, _)
set_mandatory_attributes(out_, temp_, bp) ==
    IF bp = << >> THEN out_
    ELSE With(get_attribute_ptr(temp_, Head(bp)), LAMBDA p :
            set_mandatory_attributes(
                add_attribute(out_, Head(bp), p.val,
                              IF p.rc # PKCS11_CKR_OK THEN 0 ELSE p.size),
                temp_, Tail(bp)))

RECURSIVE set_optional_attributes(_, _, _)
set_optional_attributes(out_, temp_, bp) ==
    IF bp = << >> THEN out_
    ELSE With(get_attribute_ptr(temp_, Head(bp)), LAMBDA p :
            IF p.rc # PKCS11_CKR_OK
            THEN set_optional_attributes(out_, temp_, Tail(bp))
            ELSE set_optional_attributes(
                     add_attribute(out_, Head(bp), p.val, p.size),
                     temp_, Tail(bp)))

pkcs11_any_object_boolprops ==
    << PKCS11_CKA_TOKEN, PKCS11_CKA_PRIVATE, PKCS11_CKA_MODIFIABLE,
       PKCS11_CKA_COPYABLE, PKCS11_CKA_DESTROYABLE >>
pkcs11_any_object_optional == << PKCS11_CKA_LABEL >>
pkcs11_raw_data_optional ==
    << PKCS11_CKA_OBJECT_ID, PKCS11_CKA_APPLICATION, PKCS11_CKA_VALUE >>
pkcs11_any_key_boolprops == << PKCS11_CKA_DERIVE >>
pkcs11_any_key_optional ==
    << PKCS11_CKA_ID, PKCS11_CKA_START_DATE, PKCS11_CKA_END_DATE,
       PKCS11_CKA_ALLOWED_MECHANISMS >>
pkcs11_symm_key_boolprops ==
    << PKCS11_CKA_ENCRYPT, PKCS11_CKA_DECRYPT, PKCS11_CKA_SIGN,
       PKCS11_CKA_VERIFY, PKCS11_CKA_WRAP, PKCS11_CKA_UNWRAP,
       PKCS11_CKA_SENSITIVE, PKCS11_CKA_EXTRACTABLE,
       PKCS11_CKA_WRAP_WITH_TRUSTED, PKCS11_CKA_TRUSTED >>
pkcs11_symm_key_optional ==
    << PKCS11_CKA_WRAP_TEMPLATE, PKCS11_CKA_UNWRAP_TEMPLATE,
       PKCS11_CKA_DERIVE_TEMPLATE, PKCS11_CKA_VALUE, PKCS11_CKA_VALUE_LEN >>
pkcs11_public_key_boolprops ==
    << PKCS11_CKA_ENCRYPT, PKCS11_CKA_VERIFY, PKCS11_CKA_VERIFY_RECOVER,
       PKCS11_CKA_WRAP, PKCS11_CKA_TRUSTED >>
pkcs11_public_key_mandated == << PKCS11_CKA_SUBJECT >>
pkcs11_public_key_optional ==
    << PKCS11_CKA_WRAP_TEMPLATE, PKCS11_CKA_PUBLIC_KEY_INFO >>
pkcs11_private_key_boolprops ==
    << PKCS11_CKA_DECRYPT, PKCS11_CKA_SIGN, PKCS11_CKA_SIGN_RECOVER,
       PKCS11_CKA_UNWRAP, PKCS11_CKA_SENSITIVE, PKCS11_CKA_EXTRACTABLE,
       PKCS11_CKA_WRAP_WITH_TRUSTED, PKCS11_CKA_ALWAYS_AUTHENTICATE >>
pkcs11_private_key_mandated == << PKCS11_CKA_SUBJECT >>
pkcs11_private_key_optional ==
    << PKCS11_CKA_UNWRAP_TEMPLATE, PKCS11_CKA_PUBLIC_KEY_INFO >>
pkcs11_rsa_public_key_mandated == << PKCS11_CKA_MODULUS_BITS >>
pkcs11_rsa_public_key_optional ==
    << PKCS11_CKA_MODULUS, PKCS11_CKA_PUBLIC_EXPONENT >>
pkcs11_rsa_private_key_optional ==
    << PKCS11_CKA_MODULUS, PKCS11_CKA_PUBLIC_EXPONENT,
       PKCS11_CKA_PRIVATE_EXPONENT, PKCS11_CKA_PRIME_1, PKCS11_CKA_PRIME_2,
       PKCS11_CKA_EXPONENT_1, PKCS11_CKA_EXPONENT_2,
       PKCS11_CKA_COEFFICIENT >>
pkcs11_ec_public_key_mandated == << PKCS11_CKA_EC_PARAMS >>
pkcs11_ec_public_key_optional ==
    << PKCS11_CKA_EC_POINT, PKCS11_CKA_EC_POINT_X, PKCS11_CKA_EC_POINT_Y >>
pkcs11_ec_private_key_mandated == << PKCS11_CKA_EC_PARAMS >>
pkcs11_ec_private_key_optional ==
    << PKCS11_CKA_VALUE, PKCS11_CKA_EC_POINT_X, PKCS11_CKA_EC_POINT_Y >>

\* The create_*_attributes() functions yield [rv, out]
create_storage_attributes(temp_) ==
    With(get_class(temp_), LAMBDA class :
        IF class = PKCS11_CKO_UNDEFINED_ID
        THEN [rv |-> PKCS11_CKR_TEMPLATE_INCONSISTENT, out |-> NoObject]
        ELSE [rv |-> PKCS11_CKR_OK,
              out |-> set_optional_attributes(
                          set_mandatory_boolprops(
                              add_attribute(NoObject, PKCS11_CKA_CLASS,
                                            class, 4),
                              temp_, pkcs11_any_object_boolprops),
                          temp_, pkcs11_any_object_optional)])

create_genkey_attributes(temp_) ==
    With(create_storage_attributes(temp_), LAMBDA s :
        IF s.rv # PKCS11_CKR_OK THEN s
        ELSE With(get_type(temp_), LAMBDA type :
            IF type = PKCS11_CKK_UNDEFINED_ID
            THEN [rv |-> PKCS11_CKR_TEMPLATE_INCONSISTENT, out |-> s.out]
            ELSE [rv |-> PKCS11_CKR_OK,
                  out |-> set_optional_attributes(
                              set_mandatory_boolprops(
                                  add_attribute(s.out, PKCS11_CKA_KEY_TYPE,
                                                type, 4),
                                  temp_, pkcs11_any_key_boolprops),
                              temp_, pkcs11_any_key_optional)]))

create_symm_key_attributes(temp_) ==
    With(create_genkey_attributes(temp_), LAMBDA g :
        IF g.rv # PKCS11_CKR_OK THEN g
        ELSE IF get_type(g.out) \notin
                  { PKCS11_CKK_GENERIC_SECRET, PKCS11_CKK_AES,
                    PKCS11_CKK_MD5_HMAC, PKCS11_CKK_SHA_1_HMAC,
                    PKCS11_CKK_SHA256_HMAC, PKCS11_CKK_SHA384_HMAC,
                    PKCS11_CKK_SHA512_HMAC, PKCS11_CKK_SHA224_HMAC }
        THEN [rv |-> PKCS11_CKR_TEMPLATE_INCONSISTENT, out |-> g.out]
        ELSE [rv |-> PKCS11_CKR_OK,
              out |-> set_optional_attributes(
                          set_mandatory_boolprops(g.out, temp_,
                              pkcs11_symm_key_boolprops),
                          temp_, pkcs11_symm_key_optional)])

create_data_attributes(temp_) ==
    With(create_storage_attributes(temp_), LAMBDA s :
        IF s.rv # PKCS11_CKR_OK THEN s
        ELSE [rv |-> PKCS11_CKR_OK,
              out |-> set_optional_attributes(s.out, temp_,
                                              pkcs11_raw_data_optional)])

\* The end of create_pub_key_attributes() and create_priv_key_attributes():
\* the attributes of the key type, out_ holding those of the class
\* rsa_m, rsa_o, ec_m, ec_o: the mandated and optional ids for RSA and EC
create_key_type_attributes(out_, temp_, type, rsa_m, rsa_o, ec_m, ec_o) ==
    CASE type = PKCS11_CKK_RSA ->
            [rv |-> PKCS11_CKR_OK,
             out |-> set_optional_attributes(
                         set_mandatory_attributes(out_, temp_, rsa_m),
                         temp_, rsa_o)]
      [] type = PKCS11_CKK_EC ->
            [rv |-> PKCS11_CKR_OK,
             out |-> set_optional_attributes(
                         set_mandatory_attributes(out_, temp_, ec_m),
                         temp_, ec_o)]
      [] OTHER -> [rv |-> PKCS11_CKR_TEMPLATE_INCONSISTENT, out |-> out_]

create_pub_key_attributes(temp_) ==
    With(create_genkey_attributes(temp_), LAMBDA g :
        IF g.rv # PKCS11_CKR_OK THEN g
        ELSE create_key_type_attributes(
                 set_optional_attributes(
                     set_mandatory_attributes(
                         set_mandatory_boolprops(g.out, temp_,
                             pkcs11_public_key_boolprops),
                         temp_, pkcs11_public_key_mandated),
                     temp_, pkcs11_public_key_optional),
                 temp_, get_type(g.out),
                 pkcs11_rsa_public_key_mandated,
                 pkcs11_rsa_public_key_optional,
                 pkcs11_ec_public_key_mandated,
                 pkcs11_ec_public_key_optional))

create_priv_key_attributes(temp_) ==
    With(create_genkey_attributes(temp_), LAMBDA g :
        IF g.rv # PKCS11_CKR_OK THEN g
        ELSE create_key_type_attributes(
                 set_optional_attributes(
                     set_mandatory_attributes(
                         set_mandatory_boolprops(g.out, temp_,
                             pkcs11_private_key_boolprops),
                         temp_, pkcs11_private_key_mandated),
                     temp_, pkcs11_private_key_optional),
                 temp_, get_type(g.out),
                 << >>, pkcs11_rsa_private_key_optional,
                 pkcs11_ec_private_key_mandated,
                 pkcs11_ec_private_key_optional))

\* object_local() with the copy case left to the default branch
object_local_no_copy(parent_, function_) ==
    function_ \in { PKCS11_FUNCTION_GENERATE, PKCS11_FUNCTION_GENERATE_PAIR }

\* The value create_attributes_from_template() gives PKCS11_CKA_LOCAL
object_local(parent_, function_) ==
    CASE function_ \in { PKCS11_FUNCTION_GENERATE,
                         PKCS11_FUNCTION_GENERATE_PAIR } -> TRUE
      [] function_ = PKCS11_FUNCTION_COPY ->
            get_bool(parent_, PKCS11_CKA_LOCAL)
      [] OTHER -> FALSE

\* object_always_sensitive() with the negation object_never_extract() has
object_always_sensitive_negated(attrs, parent_, function_) ==
    CASE function_ \in { PKCS11_FUNCTION_DERIVE, PKCS11_FUNCTION_COPY } ->
            /\ get_bool(parent_, PKCS11_CKA_ALWAYS_SENSITIVE)
            /\ ~get_bool(attrs, PKCS11_CKA_SENSITIVE)
      [] function_ = PKCS11_FUNCTION_GENERATE ->
            ~get_bool(attrs, PKCS11_CKA_SENSITIVE)
      [] OTHER -> FALSE

\* The value it gives PKCS11_CKA_ALWAYS_SENSITIVE on a key object
object_always_sensitive(attrs, parent_, function_) ==
    CASE function_ \in { PKCS11_FUNCTION_DERIVE, PKCS11_FUNCTION_COPY } ->
            /\ get_bool(parent_, PKCS11_CKA_ALWAYS_SENSITIVE)
            /\ get_bool(attrs, PKCS11_CKA_SENSITIVE)
      [] function_ = PKCS11_FUNCTION_GENERATE ->
            get_bool(attrs, PKCS11_CKA_SENSITIVE)
      [] OTHER -> FALSE

\* object_never_extract() with copy and derive handled as generate is
object_never_extract_no_parent(attrs, parent_, function_) ==
    CASE function_ \in { PKCS11_FUNCTION_DERIVE, PKCS11_FUNCTION_COPY,
                         PKCS11_FUNCTION_GENERATE } ->
            ~get_bool(attrs, PKCS11_CKA_EXTRACTABLE)
      [] OTHER -> FALSE

\* object_never_extract() with a generated key pair handled as a generated
\* key is
object_never_extract_pair_as_key(attrs, parent_, function_) ==
    CASE function_ \in { PKCS11_FUNCTION_DERIVE, PKCS11_FUNCTION_COPY } ->
            /\ get_bool(parent_, PKCS11_CKA_NEVER_EXTRACTABLE)
            /\ ~get_bool(attrs, PKCS11_CKA_EXTRACTABLE)
      [] function_ \in { PKCS11_FUNCTION_GENERATE,
                         PKCS11_FUNCTION_GENERATE_PAIR } ->
            ~get_bool(attrs, PKCS11_CKA_EXTRACTABLE)
      [] OTHER -> FALSE

\* The value it gives PKCS11_CKA_NEVER_EXTRACTABLE on a key object
object_never_extract(attrs, parent_, function_) ==
    CASE function_ \in { PKCS11_FUNCTION_DERIVE, PKCS11_FUNCTION_COPY } ->
            /\ get_bool(parent_, PKCS11_CKA_NEVER_EXTRACTABLE)
            /\ ~get_bool(attrs, PKCS11_CKA_EXTRACTABLE)
      [] function_ = PKCS11_FUNCTION_GENERATE ->
            ~get_bool(attrs, PKCS11_CKA_EXTRACTABLE)
      [] OTHER -> FALSE

BoolByte(b) == IF b THEN PKCS11_TRUE ELSE PKCS11_FALSE

\* The part of create_attributes_from_template() that dispatches on the
\* class of the sanitized template
create_class_attributes(temp_) ==
    With(get_class(temp_), LAMBDA class :
        CASE class = PKCS11_CKO_DATA -> create_data_attributes(temp_)
          [] class = PKCS11_CKO_SECRET_KEY ->
                create_symm_key_attributes(temp_)
          [] class = PKCS11_CKO_PUBLIC_KEY ->
                create_pub_key_attributes(temp_)
          [] class = PKCS11_CKO_PRIVATE_KEY ->
                create_priv_key_attributes(temp_)
          [] OTHER -> [rv |-> PKCS11_CKR_TEMPLATE_INCONSISTENT,
                       out |-> NoObject])

\* The part that adds the attributes the token sets: LOCAL, and on keys
\* ALWAYS_SENSITIVE and NEVER_EXTRACTABLE
add_token_attributes(attrs, parent_, function_) ==
    With(add_attribute(attrs, PKCS11_CKA_LOCAL,
                       BoolByte(object_local(parent_, function_)), 1),
         LAMBDA attrs1 :
            IF pkcs11_attr_class_is_key(get_class(attrs1))
            THEN add_attribute(
                     add_attribute(attrs1, PKCS11_CKA_ALWAYS_SENSITIVE,
                         BoolByte(object_always_sensitive(attrs1, parent_,
                                                          function_)), 1),
                     PKCS11_CKA_NEVER_EXTRACTABLE,
                     BoolByte(object_never_extract(attrs1, parent_,
                                                   function_)), 1)
            ELSE attrs1)

\* bail: of create_attributes_from_template(): TEE_Free(temp) frees the
\* sanitized template if there is one, TEE_Free(attrs) frees the new list
\* when rv is an error; the lists left are counted
free_temp_and_attrs(heap_, rv_) ==
    (IF heap_ > 0 THEN heap_ - 1 ELSE 0)
    + (IF rv_ = PKCS11_CKR_OK THEN 1 ELSE 0)

\* create_attributes_from_template() yields [rv, temp, out, heap]: out is
\* *out, left as the caller set it (NoObject) when rv is not PKCS11_CKR_OK;
\* temp is the sanitized template, freed when the function returns; heap
\* counts the lists the call leaves allocated
create_attributes_from_template(template_, too_short, parent_, function_) ==
    With(sanitize_client_object(template_, too_short), LAMBDA s :
        IF s.rc # PKCS11_CKR_OK
        THEN [rv |-> s.rc, temp |-> s.dst, out |-> NoObject,
              heap |-> free_temp_and_attrs(s.heap, s.rc)]
        ELSE IF ~sanitize_consistent_class_and_type(s.dst)
        THEN [rv |-> PKCS11_CKR_TEMPLATE_INCONSISTENT, temp |-> s.dst,
              out |-> NoObject,
              heap |-> free_temp_and_attrs(
                           s.heap, PKCS11_CKR_TEMPLATE_INCONSISTENT)]
        ELSE With(create_class_attributes(s.dst), LAMBDA c :
            IF c.rv # PKCS11_CKR_OK
            THEN [rv |-> c.rv, temp |-> s.dst, out |-> NoObject,
                  heap |-> free_temp_and_attrs(s.heap, c.rv)]
            ELSE [rv |-> PKCS11_CKR_OK, temp |-> s.dst,
                  out |-> add_token_attributes(c.out, parent_, function_),
                  heap |-> free_temp_and_attrs(s.heap, PKCS11_CKR_OK)]))

-----------------------------------------------------------------------------
(* Object creation commands: the client sends a template, the command      *)
(* builds the attributes of the new object from it                         *)

Attr(id, size, val) == [id |-> id, size |-> size, val |-> val]

\* The template entries the client picks from
ClientEntries ==
    { Attr(PKCS11_CKA_CLASS, 4, PKCS11_CKO_SECRET_KEY),
      Attr(PKCS11_CKA_CLASS, 4, PKCS11_CKO_PRIVATE_KEY),
      Attr(PKCS11_CKA_CLASS, 4, PKCS11_CKO_DATA),
      Attr(PKCS11_CKA_KEY_TYPE, 4, PKCS11_CKK_AES),
      Attr(PKCS11_CKA_KEY_TYPE, 4, PKCS11_CKK_RSA),
      Attr(PKCS11_CKA_VALUE_LEN, 4, 32),
      Attr(PKCS11_CKA_SENSITIVE, 1, PKCS11_TRUE),
      Attr(PKCS11_CKA_MODIFIABLE, 1, PKCS11_FALSE) }

\* Objects of the token a copy or a derivation starts from: an AES key the
\* token generated and an AES key a client imported
AesKeyTemplate ==
    << Attr(PKCS11_CKA_CLASS, 4, PKCS11_CKO_SECRET_KEY),
       Attr(PKCS11_CKA_KEY_TYPE, 4, PKCS11_CKK_AES) >>

TokenObjects ==
    { create_attributes_from_template(AesKeyTemplate, FALSE, NoObject,
                                      f).out :
        f \in { PKCS11_FUNCTION_GENERATE, PKCS11_FUNCTION_IMPORT } }

NoProcessing == [state |-> "none"]

\* The commands below run with no session, handle database or probe list
NoSession == [state |-> "none"]
NoDatabase == [state |-> "none"]
NoProbe == [state |-> "none"]

InitBuilder ==
    /\ phase = "template"
    /\ template = << >>
    /\ function = "none"
    /\ parent = NoObject
    /\ temp = NoObject
    /\ out = NoObject
    /\ rv = PKCS11_CKR_OK
    /\ mechanism = PKCS11_UNDEFINED_ID
    /\ step = "none"
    /\ processing = NoProcessing
    /\ key = NoObject
    /\ trace = << >>
    /\ heap = 0
    /\ session_state = NoSession
    /\ db = NoDatabase
    /\ dt = NoProbe

\* The client serializes one more attribute into its template
AddTemplateEntry ==
    /\ phase = "template"
    /\ Len(template) < MaxTemplateLen
    /\ \E e \in ClientEntries : template' = Append(template, e)
    /\ UNCHANGED <<phase, function, parent, temp, out, rv, mechanism, step,
                   processing, key, trace,
                   session_state, db, dt>>
    /\ UNCHANGED heap

\* The command ends with the result r of create_attributes_from_template()
ReturnObject(function_, parent_, r) ==
    /\ phase' = "done"
    /\ function' = function_
    /\ parent' = parent_
    /\ temp' = r.temp
    /\ out' = r.out
    /\ rv' = r.rv
    /\ UNCHANGED <<template, mechanism, step, processing, key, trace,
                   session_state, db, dt>>
    /\ heap' = r.heap

\* A command that calls create_attributes_from_template()
CreateObject(function_, parent_, too_short) ==
    /\ phase = "template"
    /\ ReturnObject(function_, parent_,
                    create_attributes_from_template(template, too_short,
                                                    parent_, function_))

ImportObject ==
    \E too_short \in BOOLEAN :
        CreateObject(PKCS11_FUNCTION_IMPORT, NoObject, too_short)

GenerateKey ==
    \E too_short \in BOOLEAN :
        CreateObject(PKCS11_FUNCTION_GENERATE, NoObject, too_short)

GenerateKeyPair ==
    \E too_short \in BOOLEAN :
        CreateObject(PKCS11_FUNCTION_GENERATE_PAIR, NoObject, too_short)

CopyObject ==
    \E obj \in TokenObjects, too_short \in BOOLEAN :
        CreateObject(PKCS11_FUNCTION_COPY, obj, too_short)

DeriveKey ==
    \E obj \in TokenObjects, too_short \in BOOLEAN :
        CreateObject(PKCS11_FUNCTION_DERIVE, obj, too_short)

NextBuilder ==
    \/ AddTemplateEntry
    \/ ImportObject
    \/ GenerateKey
    \/ GenerateKeyPair
    \/ CopyObject
    \/ DeriveKey

SpecBuilder == InitBuilder /\ [][NextBuilder]_vars

-----------------------------------------------------------------------------
(* Properties of the object creation commands *)

\* The command returned an object
Built == phase = "done" /\ rv = PKCS11_CKR_OK

\* The number of entries of head with the given id
Count(head, attribute) ==
    Cardinality({ i \in 1..Len(head) : head[i].id = attribute })

\* The boolean attributes the class builders set from the template
BuilderBoolprops ==
    { pkcs11_any_object_boolprops[i] :
        i \in 1..Len(pkcs11_any_object_boolprops) } \cup
    { pkcs11_any_key_boolprops[i] :
        i \in 1..Len(pkcs11_any_key_boolprops) } \cup
    { pkcs11_symm_key_boolprops[i] :
        i \in 1..Len(pkcs11_symm_key_boolprops) } \cup
    { pkcs11_public_key_boolprops[i] :
        i \in 1..Len(pkcs11_public_key_boolprops) } \cup
    { pkcs11_private_key_boolprops[i] :
        i \in 1..Len(pkcs11_private_key_boolprops) }

\* C1: on every key object create_attributes_from_template() returns,
\* whatever the function, ALWAYS_SENSITIVE implies SENSITIVE and
\* NEVER_EXTRACTABLE implies not EXTRACTABLE.
C1_SensitivityMonotonic ==
    (Built /\ pkcs11_attr_class_is_key(get_class(out))) =>
        /\ get_bool(out, PKCS11_CKA_ALWAYS_SENSITIVE) =>
               get_bool(out, PKCS11_CKA_SENSITIVE)
        /\ get_bool(out, PKCS11_CKA_NEVER_EXTRACTABLE) =>
               ~get_bool(out, PKCS11_CKA_EXTRACTABLE)

C1_Witness ==
    /\ Built
    /\ pkcs11_attr_class_is_key(get_class(out))
    /\ Count(out, PKCS11_CKA_ALWAYS_SENSITIVE) = 1
    /\ get_bool(out, PKCS11_CKA_NEVER_EXTRACTABLE)
    /\ ~get_bool(out, PKCS11_CKA_EXTRACTABLE)

\* C2: each boolean attribute the builder set on a returned object has the
\* value the client's template gave it, true or false, when the template
\* specified it, and otherwise its default: true for MODIFIABLE, COPYABLE
\* and DESTROYABLE, false for the others.
C2_BoolpropFromTemplateOrDefault ==
    Built =>
        \A P \in BuilderBoolprops :
            Count(out, P) > 0 =>
                LET t == get_attribute_ptr(template, P)
                IN  get_bool(out, P) =
                        IF t.rc = PKCS11_CKR_OK THEN t.val = PKCS11_TRUE
                        ELSE pkcs11_object_default_boolprop(P) = PKCS11_TRUE

\* C3: for every boolean attribute id P of a template the pipeline
\* accepted, the sanitized template has exactly one entry of id P, of size
\* 1 and of the template's value, so that a lookup of P yields that value.
C3_SanitizedBoolpropKeepsId ==
    Built =>
        \A i \in 1..Len(template) :
            pkcs11_attr2boolprop_shift(template[i].id) >= 0 =>
                /\ Count(temp, template[i].id) = 1
                /\ get_attribute(temp, template[i].id, 1) =
                       [rc |-> PKCS11_CKR_OK, val |-> template[i].val]

\* C4: generating a key from the template CLASS=SECRET_KEY, KEY_TYPE=AES,
\* VALUE_LEN=32, SENSITIVE=true succeeds and the key has LOCAL,
\* ALWAYS_SENSITIVE and NEVER_EXTRACTABLE all true.
C4_Template ==
    << Attr(PKCS11_CKA_CLASS, 4, PKCS11_CKO_SECRET_KEY),
       Attr(PKCS11_CKA_KEY_TYPE, 4, PKCS11_CKK_AES),
       Attr(PKCS11_CKA_VALUE_LEN, 4, 32),
       Attr(PKCS11_CKA_SENSITIVE, 1, PKCS11_TRUE) >>

C4_GenerateSensitiveAesKey ==
    ( /\ phase = "done"
      /\ template = C4_Template
      /\ function = PKCS11_FUNCTION_GENERATE
      /\ rv # PKCS11_BAD_PARAM ) =>
        /\ rv = PKCS11_CKR_OK
        /\ get_bool(out, PKCS11_CKA_LOCAL)
        /\ get_bool(out, PKCS11_CKA_ALWAYS_SENSITIVE)
        /\ get_bool(out, PKCS11_CKA_NEVER_EXTRACTABLE)

\* C5: on a key object made by COPY or DERIVE, ALWAYS_SENSITIVE is the
\* parent's ALWAYS_SENSITIVE and the object's SENSITIVE, and
\* NEVER_EXTRACTABLE is the parent's NEVER_EXTRACTABLE and not the object's
\* EXTRACTABLE.
C5_CopyDeriveInheritance ==
    ( /\ Built
      /\ function \in { PKCS11_FUNCTION_COPY, PKCS11_FUNCTION_DERIVE }
      /\ pkcs11_attr_class_is_key(get_class(out)) ) =>
        /\ get_bool(out, PKCS11_CKA_ALWAYS_SENSITIVE) =
               ( /\ get_bool(parent, PKCS11_CKA_ALWAYS_SENSITIVE)
                 /\ get_bool(out, PKCS11_CKA_SENSITIVE) )
        /\ get_bool(out, PKCS11_CKA_NEVER_EXTRACTABLE) =
               ( /\ get_bool(parent, PKCS11_CKA_NEVER_EXTRACTABLE)
                 /\ ~get_bool(out, PKCS11_CKA_EXTRACTABLE) )

C5_Witness ==
    /\ Built
    /\ function = PKCS11_FUNCTION_DERIVE
    /\ pkcs11_attr_class_is_key(get_class(out))
    /\ get_bool(parent, PKCS11_CKA_NEVER_EXTRACTABLE)
    /\ get_bool(out, PKCS11_CKA_NEVER_EXTRACTABLE)

\* C6: every returned object has exactly one LOCAL attribute; it is true
\* for GENERATE and GENERATE_PAIR, false for IMPORT and DERIVE, and the
\* parent's LOCAL for COPY.
C6_LocalByFunction ==
    Built =>
        /\ Count(out, PKCS11_CKA_LOCAL) = 1
        /\ get_bool(out, PKCS11_CKA_LOCAL) =
               CASE function \in { PKCS11_FUNCTION_GENERATE,
                                   PKCS11_FUNCTION_GENERATE_PAIR } -> TRUE
                 [] function \in { PKCS11_FUNCTION_IMPORT,
                                   PKCS11_FUNCTION_DERIVE } -> FALSE
                 [] function = PKCS11_FUNCTION_COPY ->
                       get_bool(parent, PKCS11_CKA_LOCAL)

C6_Witness ==
    /\ Built
    /\ function = PKCS11_FUNCTION_COPY
    /\ get_bool(parent, PKCS11_CKA_LOCAL)
    /\ Count(out, PKCS11_CKA_LOCAL) = 1
    /\ get_bool(out, PKCS11_CKA_LOCAL)


-----------------------------------------------------------------------------
(* Mechanism catalog (ta/pkcs11/src/token_capabilities.c) *)

\* enum pkcs11_mechanism_id
PKCS11_CKM_RSA_PKCS_KEY_PAIR_GEN == 0
PKCS11_CKM_RSA_PKCS == 1
PKCS11_CKM_RSA_9796 == 2
PKCS11_CKM_RSA_X_509 == 3
PKCS11_CKM_SHA1_RSA_PKCS == 6
PKCS11_CKM_RSA_PKCS_OAEP == 9
PKCS11_CKM_RSA_PKCS_PSS == 13
PKCS11_CKM_SHA1_RSA_PKCS_PSS == 14
PKCS11_CKM_DH_PKCS_DERIVE == 33
PKCS11_CKM_SHA256_RSA_PKCS == 64
PKCS11_CKM_SHA384_RSA_PKCS == 65
PKCS11_CKM_SHA512_RSA_PKCS == 66
PKCS11_CKM_SHA256_RSA_PKCS_PSS == 67
PKCS11_CKM_SHA384_RSA_PKCS_PSS == 68
PKCS11_CKM_SHA512_RSA_PKCS_PSS == 69
PKCS11_CKM_SHA224_RSA_PKCS == 70
PKCS11_CKM_SHA224_RSA_PKCS_PSS == 71
PKCS11_CKM_MD5 == 528
PKCS11_CKM_MD5_HMAC == 529
PKCS11_CKM_SHA_1 == 544
PKCS11_CKM_SHA_1_HMAC == 545
PKCS11_CKM_SHA256 == 592
PKCS11_CKM_SHA256_HMAC == 593
PKCS11_CKM_SHA224 == 597
PKCS11_CKM_SHA224_HMAC == 598
PKCS11_CKM_SHA384 == 608
PKCS11_CKM_SHA384_HMAC == 609
PKCS11_CKM_SHA512 == 624
PKCS11_CKM_SHA512_HMAC == 625
PKCS11_CKM_GENERIC_SECRET_KEY_GEN == 848
PKCS11_CKM_EC_KEY_PAIR_GEN == 4160
PKCS11_CKM_ECDSA == 4161
PKCS11_CKM_ECDSA_SHA1 == 4162
PKCS11_CKM_ECDSA_SHA224 == 4163
PKCS11_CKM_ECDSA_SHA256 == 4164
PKCS11_CKM_ECDSA_SHA384 == 4165
PKCS11_CKM_ECDSA_SHA512 == 4166
PKCS11_CKM_ECDH1_DERIVE == 4176
PKCS11_CKM_ECDH1_COFACTOR_DERIVE == 4177
PKCS11_CKM_ECMQV_DERIVE == 4178
PKCS11_CKM_ECDH_AES_KEY_WRAP == 4179
PKCS11_CKM_RSA_AES_KEY_WRAP == 4180
PKCS11_CKM_AES_KEY_GEN == 4224
PKCS11_CKM_AES_ECB == 4225
PKCS11_CKM_AES_CBC == 4226
PKCS11_CKM_AES_CBC_PAD == 4229
PKCS11_CKM_AES_CTR == 4230
PKCS11_CKM_AES_GCM == 4231
PKCS11_CKM_AES_CCM == 4232
PKCS11_CKM_AES_CTS == 4233
PKCS11_CKM_AES_CMAC == 4234
PKCS11_CKM_AES_CMAC_GENERAL == 4235
PKCS11_CKM_AES_XCBC_MAC == 4236
PKCS11_CKM_AES_GMAC == 4238
PKCS11_CKM_AES_ECB_ENCRYPT_DATA == 4356
PKCS11_CKM_AES_CBC_ENCRYPT_DATA == 4357
PKCS11_CKM_AES_KEY_WRAP == 8457
PKCS11_CKM_UNDEFINED_ID == PKCS11_UNDEFINED_ID

\* PKCS11_CKFM_<x>: mechanism flags, bit 8 to bit 19
PKCS11_CKFM_ENCRYPT == 256
PKCS11_CKFM_DECRYPT == 512
PKCS11_CKFM_DIGEST == 1024
PKCS11_CKFM_SIGN == 2048
PKCS11_CKFM_SIGN_RECOVER == 4096
PKCS11_CKFM_VERIFY == 8192
PKCS11_CKFM_VERIFY_RECOVER == 16384
PKCS11_CKFM_GENERATE == 32768
PKCS11_CKFM_GENERATE_KEY_PAIR == 65536
PKCS11_CKFM_WRAP == 131072
PKCS11_CKFM_UNWRAP == 262144
PKCS11_CKFM_DERIVE == 524288

\* a & b, a | b and a & ~b on unsigned words
RECURSIVE BitAnd(_, _)
BitAnd(a, b) ==
    IF a = 0 \/ b = 0 THEN 0
    ELSE (a % 2) * (b % 2) + 2 * BitAnd(a \div 2, b \div 2)

RECURSIVE BitOr(_, _)
BitOr(a, b) ==
    IF a = 0 THEN b
    ELSE IF b = 0 THEN a
    ELSE (IF a % 2 = 1 \/ b % 2 = 1 THEN 1 ELSE 0)
         + 2 * BitOr(a \div 2, b \div 2)

RECURSIVE BitAndNot(_, _)
BitAndNot(a, b) ==
    IF a = 0 THEN 0
    ELSE (a % 2) * (1 - (b % 2)) + 2 * BitAndNot(a \div 2, b \div 2)

ALLOWED_PKCS11_CKFM ==
    PKCS11_CKFM_ENCRYPT + PKCS11_CKFM_DECRYPT + PKCS11_CKFM_DERIVE
    + PKCS11_CKFM_DIGEST + PKCS11_CKFM_SIGN + PKCS11_CKFM_SIGN_RECOVER
    + PKCS11_CKFM_VERIFY + PKCS11_CKFM_VERIFY_RECOVER + PKCS11_CKFM_GENERATE
    + PKCS11_CKFM_GENERATE_KEY_PAIR + PKCS11_CKFM_WRAP + PKCS11_CKFM_UNWRAP

\* struct pkcs11_mechachism_modes
MECHANISM(label, flags, single_part) ==
    [id |-> label, flags |-> flags, one_shot |-> single_part]

SINGLE_PART_ONLY == TRUE

CKFM_CIPHER == BitOr(PKCS11_CKFM_ENCRYPT, PKCS11_CKFM_DECRYPT)
CKFM_WRAP_UNWRAP == BitOr(PKCS11_CKFM_WRAP, PKCS11_CKFM_UNWRAP)
CKFM_CIPHER_WRAP == BitOr(CKFM_CIPHER, CKFM_WRAP_UNWRAP)
CKFM_CIPHER_WRAP_DERIVE == BitOr(CKFM_CIPHER_WRAP, PKCS11_CKFM_DERIVE)
CKFM_AUTH_NO_RECOVER == BitOr(PKCS11_CKFM_SIGN, PKCS11_CKFM_VERIFY)
CKFM_AUTH_WITH_RECOVER ==
    BitOr(PKCS11_CKFM_SIGN_RECOVER, PKCS11_CKFM_VERIFY_RECOVER)

\* PKCS#11 specifies the permitted operations of each mechanism
pkcs11_modes ==
    << MECHANISM(PKCS11_CKM_AES_ECB, CKFM_CIPHER_WRAP_DERIVE, FALSE),
       MECHANISM(PKCS11_CKM_AES_CBC, CKFM_CIPHER_WRAP_DERIVE, FALSE),
       MECHANISM(PKCS11_CKM_AES_CBC_PAD, CKFM_CIPHER_WRAP_DERIVE, FALSE),
       MECHANISM(PKCS11_CKM_AES_CTS, CKFM_CIPHER_WRAP, FALSE),
       MECHANISM(PKCS11_CKM_AES_CTR, CKFM_CIPHER_WRAP, FALSE),
       MECHANISM(PKCS11_CKM_AES_GCM, CKFM_CIPHER_WRAP, FALSE),
       MECHANISM(PKCS11_CKM_AES_CCM, CKFM_CIPHER_WRAP, FALSE),
       MECHANISM(PKCS11_CKM_AES_GMAC, BitOr(CKFM_AUTH_NO_RECOVER,
           PKCS11_CKFM_DERIVE), FALSE),
       MECHANISM(PKCS11_CKM_AES_CMAC, CKFM_AUTH_NO_RECOVER, FALSE),
       MECHANISM(PKCS11_CKM_AES_CMAC_GENERAL, CKFM_AUTH_NO_RECOVER, FALSE),
       MECHANISM(PKCS11_CKM_AES_ECB_ENCRYPT_DATA, PKCS11_CKFM_DERIVE, FALSE),
       MECHANISM(PKCS11_CKM_AES_CBC_ENCRYPT_DATA, PKCS11_CKFM_DERIVE, FALSE),
       MECHANISM(PKCS11_CKM_AES_KEY_GEN, PKCS11_CKFM_GENERATE, FALSE),
       MECHANISM(PKCS11_CKM_GENERIC_SECRET_KEY_GEN, PKCS11_CKFM_GENERATE, FALSE),
       MECHANISM(PKCS11_CKM_AES_CMAC, CKFM_AUTH_NO_RECOVER, FALSE),
       MECHANISM(PKCS11_CKM_MD5_HMAC, CKFM_AUTH_NO_RECOVER, FALSE),
       MECHANISM(PKCS11_CKM_SHA_1_HMAC, CKFM_AUTH_NO_RECOVER, FALSE),
       MECHANISM(PKCS11_CKM_SHA224_HMAC, CKFM_AUTH_NO_RECOVER, FALSE),
       MECHANISM(PKCS11_CKM_SHA256_HMAC, CKFM_AUTH_NO_RECOVER, FALSE),
       MECHANISM(PKCS11_CKM_SHA384_HMAC, CKFM_AUTH_NO_RECOVER, FALSE),
       MECHANISM(PKCS11_CKM_SHA512_HMAC, CKFM_AUTH_NO_RECOVER, FALSE),
       MECHANISM(PKCS11_CKM_AES_XCBC_MAC, CKFM_AUTH_NO_RECOVER, FALSE),
       MECHANISM(PKCS11_CKM_EC_KEY_PAIR_GEN, PKCS11_CKFM_GENERATE_KEY_PAIR,
           FALSE),
       MECHANISM(PKCS11_CKM_ECDSA, CKFM_AUTH_NO_RECOVER, SINGLE_PART_ONLY),
       MECHANISM(PKCS11_CKM_ECDSA_SHA1, CKFM_AUTH_NO_RECOVER, FALSE),
       MECHANISM(PKCS11_CKM_ECDSA_SHA224, CKFM_AUTH_NO_RECOVER, FALSE),
       MECHANISM(PKCS11_CKM_ECDSA_SHA256, CKFM_AUTH_NO_RECOVER, FALSE),
       MECHANISM(PKCS11_CKM_ECDSA_SHA384, CKFM_AUTH_NO_RECOVER, FALSE),
       MECHANISM(PKCS11_CKM_ECDSA_SHA512, CKFM_AUTH_NO_RECOVER, FALSE),
       MECHANISM(PKCS11_CKM_ECDH1_DERIVE, PKCS11_CKFM_DERIVE, FALSE),
       MECHANISM(PKCS11_CKM_ECDH1_COFACTOR_DERIVE, PKCS11_CKFM_DERIVE, FALSE),
       MECHANISM(PKCS11_CKM_ECMQV_DERIVE, PKCS11_CKFM_DERIVE, FALSE),
       MECHANISM(PKCS11_CKM_ECDH_AES_KEY_WRAP, CKFM_WRAP_UNWRAP, FALSE),
       MECHANISM(PKCS11_CKM_RSA_PKCS_KEY_PAIR_GEN,
           PKCS11_CKFM_GENERATE_KEY_PAIR, FALSE),
       MECHANISM(PKCS11_CKM_RSA_PKCS, BitOr(BitOr(CKFM_CIPHER_WRAP,
           CKFM_AUTH_NO_RECOVER), CKFM_AUTH_WITH_RECOVER), SINGLE_PART_ONLY),
       MECHANISM(PKCS11_CKM_RSA_PKCS_PSS, CKFM_AUTH_NO_RECOVER,
           SINGLE_PART_ONLY),
       MECHANISM(PKCS11_CKM_RSA_PKCS_OAEP, CKFM_CIPHER_WRAP, SINGLE_PART_ONLY),
       MECHANISM(PKCS11_CKM_RSA_9796, BitOr(BitOr(CKFM_WRAP_UNWRAP,
           CKFM_AUTH_NO_RECOVER), CKFM_AUTH_WITH_RECOVER), SINGLE_PART_ONLY),
       MECHANISM(PKCS11_CKM_RSA_X_509, BitOr(BitOr(CKFM_CIPHER_WRAP,
           CKFM_AUTH_NO_RECOVER), CKFM_AUTH_WITH_RECOVER), SINGLE_PART_ONLY),
       MECHANISM(PKCS11_CKM_SHA1_RSA_PKCS, CKFM_AUTH_NO_RECOVER, FALSE),
       MECHANISM(PKCS11_CKM_SHA1_RSA_PKCS_PSS, CKFM_AUTH_NO_RECOVER, FALSE),
       MECHANISM(PKCS11_CKM_SHA256_RSA_PKCS, CKFM_AUTH_NO_RECOVER, FALSE),
       MECHANISM(PKCS11_CKM_SHA384_RSA_PKCS, CKFM_AUTH_NO_RECOVER, FALSE),
       MECHANISM(PKCS11_CKM_SHA512_RSA_PKCS, CKFM_AUTH_NO_RECOVER, FALSE),
       MECHANISM(PKCS11_CKM_SHA256_RSA_PKCS_PSS, CKFM_AUTH_NO_RECOVER, FALSE),
       MECHANISM(PKCS11_CKM_SHA384_RSA_PKCS_PSS, CKFM_AUTH_NO_RECOVER, FALSE),
       MECHANISM(PKCS11_CKM_SHA512_RSA_PKCS_PSS, CKFM_AUTH_NO_RECOVER, FALSE),
       MECHANISM(PKCS11_CKM_SHA224_RSA_PKCS, CKFM_AUTH_NO_RECOVER, FALSE),
       MECHANISM(PKCS11_CKM_SHA224_RSA_PKCS_PSS, CKFM_AUTH_NO_RECOVER, FALSE),
       MECHANISM(PKCS11_CKM_RSA_AES_KEY_WRAP, CKFM_WRAP_UNWRAP, FALSE),
       MECHANISM(PKCS11_CKM_MD5, PKCS11_CKFM_DIGEST, FALSE),
       MECHANISM(PKCS11_CKM_SHA_1, PKCS11_CKFM_DIGEST, FALSE),
       MECHANISM(PKCS11_CKM_SHA224, PKCS11_CKFM_DIGEST, FALSE),
       MECHANISM(PKCS11_CKM_SHA256, PKCS11_CKFM_DIGEST, FALSE),
       MECHANISM(PKCS11_CKM_SHA384, PKCS11_CKFM_DIGEST, FALSE),
       MECHANISM(PKCS11_CKM_SHA512, PKCS11_CKFM_DIGEST, FALSE) >>

\* TA_MECHANISM() if it gave every mechanism of the token the digest function
TA_MECHANISM_with_digest(label, flags) ==
    MECHANISM(label, BitOr(flags, PKCS11_CKFM_DIGEST), FALSE)

TA_MECHANISM(label, flags) == MECHANISM(label, flags, FALSE)

\* The ids and processing flags of the mechanisms the token supports
token_mechanism ==
    << TA_MECHANISM(PKCS11_CKM_AES_ECB, CKFM_CIPHER),
       TA_MECHANISM(PKCS11_CKM_AES_CBC, CKFM_CIPHER),
       TA_MECHANISM(PKCS11_CKM_AES_CBC_PAD, CKFM_CIPHER),
       TA_MECHANISM(PKCS11_CKM_AES_CTR, CKFM_CIPHER),
       TA_MECHANISM(PKCS11_CKM_AES_GCM, CKFM_CIPHER),
       TA_MECHANISM(PKCS11_CKM_AES_CCM, CKFM_CIPHER),
       TA_MECHANISM(PKCS11_CKM_AES_CTS, CKFM_CIPHER),
       TA_MECHANISM(PKCS11_CKM_AES_GMAC, CKFM_AUTH_NO_RECOVER),
       TA_MECHANISM(PKCS11_CKM_AES_CMAC, CKFM_AUTH_NO_RECOVER),
       TA_MECHANISM(PKCS11_CKM_AES_CMAC_GENERAL, CKFM_AUTH_NO_RECOVER),
       TA_MECHANISM(PKCS11_CKM_AES_ECB_ENCRYPT_DATA, PKCS11_CKFM_DERIVE),
       TA_MECHANISM(PKCS11_CKM_AES_CBC_ENCRYPT_DATA, PKCS11_CKFM_DERIVE),
       TA_MECHANISM(PKCS11_CKM_AES_KEY_GEN, PKCS11_CKFM_GENERATE),
       TA_MECHANISM(PKCS11_CKM_GENERIC_SECRET_KEY_GEN, PKCS11_CKFM_GENERATE),
       TA_MECHANISM(PKCS11_CKM_MD5_HMAC, CKFM_AUTH_NO_RECOVER),
       TA_MECHANISM(PKCS11_CKM_SHA_1_HMAC, CKFM_AUTH_NO_RECOVER),
       TA_MECHANISM(PKCS11_CKM_SHA224_HMAC, CKFM_AUTH_NO_RECOVER),
       TA_MECHANISM(PKCS11_CKM_SHA256_HMAC, CKFM_AUTH_NO_RECOVER),
       TA_MECHANISM(PKCS11_CKM_SHA384_HMAC, CKFM_AUTH_NO_RECOVER),
       TA_MECHANISM(PKCS11_CKM_SHA512_HMAC, CKFM_AUTH_NO_RECOVER),
       TA_MECHANISM(PKCS11_CKM_AES_XCBC_MAC, CKFM_AUTH_NO_RECOVER),
       TA_MECHANISM(PKCS11_CKM_EC_KEY_PAIR_GEN, 0),
       TA_MECHANISM(PKCS11_CKM_ECDSA, 0),
       TA_MECHANISM(PKCS11_CKM_ECDSA_SHA1, 0),
       TA_MECHANISM(PKCS11_CKM_ECDSA_SHA224, 0),
       TA_MECHANISM(PKCS11_CKM_ECDSA_SHA256, 0),
       TA_MECHANISM(PKCS11_CKM_ECDSA_SHA384, 0),
       TA_MECHANISM(PKCS11_CKM_ECDSA_SHA512, 0),
       TA_MECHANISM(PKCS11_CKM_ECDH1_DERIVE, 0),
       TA_MECHANISM(PKCS11_CKM_ECDH1_COFACTOR_DERIVE, 0),
       TA_MECHANISM(PKCS11_CKM_ECMQV_DERIVE, 0),
       TA_MECHANISM(PKCS11_CKM_ECDH_AES_KEY_WRAP, 0),
       TA_MECHANISM(PKCS11_CKM_RSA_PKCS_KEY_PAIR_GEN,
           PKCS11_CKFM_GENERATE_KEY_PAIR),
       TA_MECHANISM(PKCS11_CKM_RSA_PKCS, CKFM_AUTH_NO_RECOVER),
       TA_MECHANISM(PKCS11_CKM_RSA_9796, 0),
       TA_MECHANISM(PKCS11_CKM_RSA_X_509, 0),
       TA_MECHANISM(PKCS11_CKM_SHA1_RSA_PKCS, CKFM_AUTH_NO_RECOVER),
       TA_MECHANISM(PKCS11_CKM_RSA_PKCS_OAEP, CKFM_CIPHER_WRAP),
       TA_MECHANISM(PKCS11_CKM_SHA1_RSA_PKCS_PSS, CKFM_AUTH_NO_RECOVER),
       TA_MECHANISM(PKCS11_CKM_SHA256_RSA_PKCS, CKFM_AUTH_NO_RECOVER),
       TA_MECHANISM(PKCS11_CKM_SHA384_RSA_PKCS, CKFM_AUTH_NO_RECOVER),
       TA_MECHANISM(PKCS11_CKM_SHA512_RSA_PKCS, CKFM_AUTH_NO_RECOVER),
       TA_MECHANISM(PKCS11_CKM_SHA256_RSA_PKCS_PSS, CKFM_AUTH_NO_RECOVER),
       TA_MECHANISM(PKCS11_CKM_SHA384_RSA_PKCS_PSS, CKFM_AUTH_NO_RECOVER),
       TA_MECHANISM(PKCS11_CKM_SHA512_RSA_PKCS_PSS, CKFM_AUTH_NO_RECOVER),
       TA_MECHANISM(PKCS11_CKM_SHA224_RSA_PKCS, CKFM_AUTH_NO_RECOVER),
       TA_MECHANISM(PKCS11_CKM_SHA224_RSA_PKCS_PSS, CKFM_AUTH_NO_RECOVER),
       TA_MECHANISM(PKCS11_CKM_UNDEFINED_ID, 0) >>

\* mechanism_is_valid(): id is one of the PKCS#11 table
mechanism_is_valid(id) == FirstIndex(pkcs11_modes, id) # 0

\* mechanism_flags_complies_pkcs11(): the mechanism is valid and flags asks
\* for nothing PKCS#11 does not permit for it
mechanism_flags_complies_pkcs11(mechanism_type, flags) ==
    With(FirstIndex(pkcs11_modes, mechanism_type), LAMBDA n :
        IF n = 0 THEN FALSE
        ELSE BitAndNot(BitAnd(flags, ALLOWED_PKCS11_CKFM),
                       pkcs11_modes[n].flags) = 0)

\* mechanism_supported_flags() reading the PKCS#11 table in place of the
\* token's table
mechanism_supported_flags_pkcs11(id, NDEBUG) ==
    With(FirstIndex(pkcs11_modes, id), LAMBDA n :
        IF n = 0 THEN [rc |-> PKCS11_CKR_OK, flags |-> 0]
        ELSE [rc |-> PKCS11_CKR_OK, flags |-> pkcs11_modes[n].flags])

\* mechanism_supported_flags(): the flags of the token's first entry for id,
\* 0 when it has none.  Its assert() is compiled out of a build that defines
\* NDEBUG; rc is PANIC when the assertion fails.
mechanism_supported_flags(id, NDEBUG) ==
    With(FirstIndex(token_mechanism, id), LAMBDA n :
        IF n = 0 THEN [rc |-> PKCS11_CKR_OK, flags |-> 0]
        ELSE IF /\ ~NDEBUG
                /\ ~mechanism_flags_complies_pkcs11(id,
                                                    token_mechanism[n].flags)
        THEN [rc |-> PANIC, flags |-> 0]
        ELSE [rc |-> PKCS11_CKR_OK, flags |-> token_mechanism[n].flags])

\* mechanism_is_one_shot_only(): the one_shot column of the PKCS#11 table
mechanism_is_one_shot_only(mechanism_type) ==
    With(FirstIndex(pkcs11_modes, mechanism_type), LAMBDA n :
        n # 0 /\ pkcs11_modes[n].one_shot)

-----------------------------------------------------------------------------
(* Mechanism against processing (pkcs11_attributes.c) *)

pkcs11_func2ckfm(function_) ==
    CASE function_ = PKCS11_FUNCTION_DIGEST -> PKCS11_CKFM_DIGEST
      [] function_ = PKCS11_FUNCTION_GENERATE -> PKCS11_CKFM_GENERATE
      [] function_ = PKCS11_FUNCTION_GENERATE_PAIR ->
            PKCS11_CKFM_GENERATE_KEY_PAIR
      [] function_ = PKCS11_FUNCTION_DERIVE -> PKCS11_CKFM_DERIVE
      [] function_ = PKCS11_FUNCTION_WRAP -> PKCS11_CKFM_WRAP
      [] function_ = PKCS11_FUNCTION_UNWRAP -> PKCS11_CKFM_UNWRAP
      [] function_ = PKCS11_FUNCTION_ENCRYPT -> PKCS11_CKFM_ENCRYPT
      [] function_ = PKCS11_FUNCTION_DECRYPT -> PKCS11_CKFM_DECRYPT
      [] function_ = PKCS11_FUNCTION_SIGN -> PKCS11_CKFM_SIGN
      [] function_ = PKCS11_FUNCTION_VERIFY -> PKCS11_CKFM_VERIFY
      [] function_ = PKCS11_FUNCTION_SIGN_RECOVER -> PKCS11_CKFM_SIGN_RECOVER
      [] function_ = PKCS11_FUNCTION_VERIFY_RECOVER ->
            PKCS11_CKFM_VERIFY_RECOVER
      [] OTHER -> 0

\* check_mechanism_against_processing() with every step but the first UPDATE
\* of a processing allowed
check_mechanism_against_processing_any_update(session, mechanism_type, function_, step_, NDEBUG) ==
    CASE step_ = PKCS11_FUNC_STEP_INIT ->
            IF function_ \in { PKCS11_FUNCTION_IMPORT, PKCS11_FUNCTION_COPY,
                               PKCS11_FUNCTION_MODIFY,
                               PKCS11_FUNCTION_DESTROY }
            THEN PKCS11_CKR_OK
            ELSE With(mechanism_supported_flags(mechanism_type, NDEBUG),
                      LAMBDA f :
                 IF f.rc = PANIC THEN PANIC
                 ELSE IF BitAnd(f.flags, pkcs11_func2ckfm(function_)) # 0
                 THEN PKCS11_CKR_OK
                 ELSE PKCS11_CKR_KEY_FUNCTION_NOT_PERMITTED)
      [] step_ \in { PKCS11_FUNC_STEP_ONESHOT, PKCS11_FUNC_STEP_UPDATE } ->
            IF /\ session.processing.always_authen
               /\ ~session.processing.relogged
            THEN PKCS11_CKR_USER_NOT_LOGGED_IN
            ELSE PKCS11_CKR_OK
      [] step_ = PKCS11_FUNC_STEP_FINAL ->
            IF /\ session.processing.always_authen
               /\ ~session.processing.relogged
            THEN PKCS11_CKR_USER_NOT_LOGGED_IN
            ELSE PKCS11_CKR_OK
      [] OTHER -> PANIC

\* check_mechanism_against_processing() with the one-shot check made before
\* the check of the login
check_mechanism_against_processing_login_last(session, mechanism_type, function_, step_, NDEBUG) ==
    CASE step_ = PKCS11_FUNC_STEP_INIT ->
            IF function_ \in { PKCS11_FUNCTION_IMPORT, PKCS11_FUNCTION_COPY,
                               PKCS11_FUNCTION_MODIFY,
                               PKCS11_FUNCTION_DESTROY }
            THEN PKCS11_CKR_OK
            ELSE With(mechanism_supported_flags(mechanism_type, NDEBUG),
                      LAMBDA f :
                 IF f.rc = PANIC THEN PANIC
                 ELSE IF BitAnd(f.flags, pkcs11_func2ckfm(function_)) # 0
                 THEN PKCS11_CKR_OK
                 ELSE PKCS11_CKR_KEY_FUNCTION_NOT_PERMITTED)
      [] step_ \in { PKCS11_FUNC_STEP_ONESHOT, PKCS11_FUNC_STEP_UPDATE } ->
            IF /\ session.processing.updated
               /\ mechanism_is_one_shot_only(mechanism_type)
            THEN PKCS11_CKR_KEY_FUNCTION_NOT_PERMITTED
            ELSE IF /\ session.processing.always_authen
                    /\ ~session.processing.relogged
            THEN PKCS11_CKR_USER_NOT_LOGGED_IN
            ELSE PKCS11_CKR_OK
      [] step_ = PKCS11_FUNC_STEP_FINAL ->
            IF /\ session.processing.always_authen
               /\ ~session.processing.relogged
            THEN PKCS11_CKR_USER_NOT_LOGGED_IN
            ELSE PKCS11_CKR_OK
      [] OTHER -> PANIC

\* check_mechanism_against_processing(): may the session run this step of
\* function with the mechanism; a step out of the enum panics
check_mechanism_against_processing(session, mechanism_type, function_, step_, NDEBUG) ==
    CASE step_ = PKCS11_FUNC_STEP_INIT ->
            IF function_ \in { PKCS11_FUNCTION_IMPORT, PKCS11_FUNCTION_COPY,
                               PKCS11_FUNCTION_MODIFY,
                               PKCS11_FUNCTION_DESTROY }
            THEN PKCS11_CKR_OK
            ELSE With(mechanism_supported_flags(mechanism_type, NDEBUG),
                      LAMBDA f :
                 IF f.rc = PANIC THEN PANIC
                 ELSE IF BitAnd(f.flags, pkcs11_func2ckfm(function_)) # 0
                 THEN PKCS11_CKR_OK
                 ELSE PKCS11_CKR_KEY_FUNCTION_NOT_PERMITTED)
      [] step_ \in { PKCS11_FUNC_STEP_ONESHOT, PKCS11_FUNC_STEP_UPDATE } ->
            IF /\ session.processing.always_authen
               /\ ~session.processing.relogged
            THEN PKCS11_CKR_USER_NOT_LOGGED_IN
            ELSE IF ~session.processing.updated THEN PKCS11_CKR_OK
            ELSE IF ~mechanism_is_one_shot_only(mechanism_type)
            THEN PKCS11_CKR_OK
            ELSE PKCS11_CKR_KEY_FUNCTION_NOT_PERMITTED
      [] step_ = PKCS11_FUNC_STEP_FINAL ->
            IF /\ session.processing.always_authen
               /\ ~session.processing.relogged
            THEN PKCS11_CKR_USER_NOT_LOGGED_IN
            ELSE PKCS11_CKR_OK
      [] OTHER -> PANIC

-----------------------------------------------------------------------------
(* The mechanism check on every session: the check is applied to a mechanism,
   a function and a step a client picks, on a session whose processing is in
   any of its states *)

\* Mechanism ids a client supplies: those of the PKCS#11 table, the
\* undefined id, and two ids of neither table
Mechanisms ==
    { pkcs11_modes[n].id : n \in 1..Len(pkcs11_modes) }
    \cup { PKCS11_CKM_UNDEFINED_ID, PKCS11_CKM_DH_PKCS_DERIVE,
           PKCS11_CKM_AES_KEY_WRAP }

processing_step ==
    { PKCS11_FUNC_STEP_INIT, PKCS11_FUNC_STEP_ONESHOT,
      PKCS11_FUNC_STEP_UPDATE, PKCS11_FUNC_STEP_FINAL }

\* struct active_processing: the fields the check reads
ActiveProcessing(always_authen, relogged, updated) ==
    [state |-> "active", always_authen |-> always_authen,
     relogged |-> relogged, updated |-> updated]

InitCheck ==
    /\ phase = "check"
    /\ template = << >>
    /\ function \in processing_func
    /\ parent = NoObject
    /\ temp = NoObject
    /\ out = NoObject
    /\ rv = PKCS11_CKR_OK
    /\ mechanism \in Mechanisms
    /\ step = "none"
    /\ processing \in { ActiveProcessing(a, r, u) : a, r, u \in BOOLEAN }
    /\ key = NoObject
    /\ trace = << >>
    /\ heap = 0
    /\ session_state = NoSession
    /\ db = NoDatabase
    /\ dt = NoProbe

CheckReturn(step_, r) ==
    /\ phase' = "checked"
    /\ step' = step_
    /\ rv' = r
    /\ trace' = << <<step_, r>> >>
    /\ UNCHANGED <<template, function, parent, temp, out, mechanism,
                   processing, key,
                   session_state, db, dt>>
    /\ UNCHANGED heap

CheckMechanism ==
    /\ phase = "check"
    /\ \E step_ \in processing_step, NDEBUG \in BOOLEAN :
          CheckReturn(step_,
              check_mechanism_against_processing([processing |-> processing],
                  mechanism, function, step_, NDEBUG))

NextCheck == CheckMechanism

SpecCheck == InitCheck /\ [][NextCheck]_vars

-----------------------------------------------------------------------------
(* A session's processing, step after step *)

\* Most checks of one processing, its INIT included
MaxSteps == 3

\* The functions that run in steps on session->processing
StepFunctions ==
    { PKCS11_FUNCTION_DIGEST, PKCS11_FUNCTION_ENCRYPT,
      PKCS11_FUNCTION_DECRYPT, PKCS11_FUNCTION_SIGN, PKCS11_FUNCTION_VERIFY,
      PKCS11_FUNCTION_SIGN_RECOVER, PKCS11_FUNCTION_VERIFY_RECOVER }

\* The mechanisms the session's client asks for: of each family of the
\* catalog, one-shot-only or not, exposed by the token or not
SessionMechanisms ==
    { PKCS11_CKM_AES_ECB, PKCS11_CKM_SHA256_HMAC, PKCS11_CKM_ECDSA,
      PKCS11_CKM_RSA_PKCS, PKCS11_CKM_RSA_PKCS_OAEP,
      PKCS11_CKM_SHA256_RSA_PKCS, PKCS11_CKM_SHA256,
      PKCS11_CKM_AES_KEY_WRAP, PKCS11_CKM_UNDEFINED_ID }

\* The keys of a processing: with and without ALWAYS_AUTHENTICATE
ProcessingKeys ==
    { << Attr(PKCS11_CKA_ALWAYS_AUTHENTICATE, 1, b) >> :
        b \in { PKCS11_FALSE, PKCS11_TRUE } }

InitProcessing ==
    /\ phase = "session"
    /\ template = << >>
    /\ function = "none"
    /\ parent = NoObject
    /\ temp = NoObject
    /\ out = NoObject
    /\ rv = PKCS11_CKR_OK
    /\ mechanism = PKCS11_UNDEFINED_ID
    /\ step = "none"
    /\ processing = NoProcessing
    /\ key = NoObject
    /\ trace = << >>
    /\ heap = 0
    /\ session_state = NoSession
    /\ db = NoDatabase
    /\ dt = NoProbe

\* The INIT check returned r: a function that runs in steps gets its
\* processing when the check passed; a panic ends the application
InitReturn(mechanism_type, function_, key_, r) ==
    /\ phase' = IF r = PANIC THEN "panic" ELSE "session"
    /\ mechanism' = mechanism_type
    /\ function' = function_
    /\ key' = key_
    /\ step' = PKCS11_FUNC_STEP_INIT
    /\ rv' = r
    /\ trace' = << <<PKCS11_FUNC_STEP_INIT, r>> >>
    /\ processing' =
          IF r = PKCS11_CKR_OK /\ function_ \in StepFunctions
          THEN ActiveProcessing(
                   get_bool(key_, PKCS11_CKA_ALWAYS_AUTHENTICATE), FALSE,
                   FALSE)
          ELSE NoProcessing
    /\ UNCHANGED <<template, parent, temp, out,
                   session_state, db, dt>>
    /\ UNCHANGED heap

ProcessingInit ==
    /\ phase = "session"
    /\ processing = NoProcessing
    /\ \E mechanism_type \in SessionMechanisms,
          function_ \in processing_func, key_ \in ProcessingKeys,
          NDEBUG \in BOOLEAN :
          InitReturn(mechanism_type, function_, key_,
              check_mechanism_against_processing([processing |-> processing],
                  mechanism_type, function_, PKCS11_FUNC_STEP_INIT, NDEBUG))

\* A step's check returned r: a passed UPDATE marks the processing updated,
\* any other outcome releases the processing
StepReturn(step_, r) ==
    /\ step' = step_
    /\ rv' = r
    /\ trace' = Append(trace, <<step_, r>>)
    /\ processing' =
          IF step_ = PKCS11_FUNC_STEP_UPDATE /\ r = PKCS11_CKR_OK
          THEN [processing EXCEPT !.updated = TRUE]
          ELSE NoProcessing
    /\ UNCHANGED <<phase, template, function, parent, temp, out, mechanism,
                   key,
                   session_state, db, dt>>
    /\ UNCHANGED heap

ProcessingStep(step_) ==
    /\ phase = "session"
    /\ processing # NoProcessing
    /\ Len(trace) < MaxSteps
    /\ StepReturn(step_,
           check_mechanism_against_processing([processing |-> processing],
               mechanism, function, step_, TRUE))

ProcessingOneshot == ProcessingStep(PKCS11_FUNC_STEP_ONESHOT)

ProcessingUpdate == ProcessingStep(PKCS11_FUNC_STEP_UPDATE)

ProcessingFinal == ProcessingStep(PKCS11_FUNC_STEP_FINAL)

\* The user logs in again while the processing is active
Relogin ==
    /\ phase = "session"
    /\ processing # NoProcessing
    /\ ~processing.relogged
    /\ processing' = [processing EXCEPT !.relogged = TRUE]
    /\ UNCHANGED <<phase, template, function, parent, temp, out, rv,
                   mechanism, step, key, trace,
                   session_state, db, dt>>
    /\ UNCHANGED heap

NextProcessing ==
    \/ ProcessingInit
    \/ ProcessingOneshot
    \/ ProcessingUpdate
    \/ ProcessingFinal
    \/ Relogin

SpecProcessing == InitProcessing /\ [][NextProcessing]_vars


-----------------------------------------------------------------------------
(* Parent key against processing (pkcs11_attributes.c) *)

\* The values of ALLOWED_MECHANISMS attributes: arrays of mechanism ids
AllowedLists ==
    << << >>,
       << PKCS11_CKM_AES_ECB, PKCS11_CKM_AES_GMAC >>,
       << PKCS11_CKM_SHA256_HMAC, PKCS11_CKM_ECDSA, PKCS11_CKM_RSA_PKCS,
          PKCS11_CKM_SHA256 >> >>

\* parent_key_complies_allowed_processings(): proc_id is one of the key's
\* ALLOWED_MECHANISMS, if the key has the attribute
parent_key_complies_allowed_processings(proc_id, head) ==
    With(get_attribute_ptr(head, PKCS11_CKA_ALLOWED_MECHANISMS), LAMBDA p :
        IF p.rc # PKCS11_CKR_OK THEN TRUE
        ELSE \E count \in 1..(p.size \div 4) :
                 AllowedLists[p.val][count] = proc_id)

\* check_parent_key_family() with a mechanism of no listed family refused as
\* not permitted
check_parent_key_family_not_permitted(proc_id, key_class, key_type, head) ==
    With(CASE proc_id \in { PKCS11_CKM_AES_ECB, PKCS11_CKM_AES_CBC,
                            PKCS11_CKM_AES_CBC_PAD, PKCS11_CKM_AES_CTS,
                            PKCS11_CKM_AES_CTR, PKCS11_CKM_AES_GCM,
                            PKCS11_CKM_AES_CCM, PKCS11_CKM_AES_CMAC,
                            PKCS11_CKM_AES_CMAC_GENERAL,
                            PKCS11_CKM_AES_XCBC_MAC } ->
                 IF /\ key_class = PKCS11_CKO_SECRET_KEY
                    /\ key_type = PKCS11_CKK_AES
                 THEN "break"
                 ELSE PKCS11_CKR_KEY_FUNCTION_NOT_PERMITTED
           [] proc_id \in { PKCS11_CKM_MD5_HMAC, PKCS11_CKM_SHA_1_HMAC,
                            PKCS11_CKM_SHA224_HMAC, PKCS11_CKM_SHA256_HMAC,
                            PKCS11_CKM_SHA384_HMAC,
                            PKCS11_CKM_SHA512_HMAC } ->
                 IF key_class # PKCS11_CKO_SECRET_KEY
                 THEN PKCS11_CKR_KEY_FUNCTION_NOT_PERMITTED
                 ELSE IF key_type = PKCS11_CKK_GENERIC_SECRET THEN "break"
                 ELSE IF key_type =
                     CASE proc_id = PKCS11_CKM_MD5_HMAC ->
                             PKCS11_CKK_MD5_HMAC
                       [] proc_id = PKCS11_CKM_SHA_1_HMAC ->
                             PKCS11_CKK_SHA_1_HMAC
                       [] proc_id = PKCS11_CKM_SHA224_HMAC ->
                             PKCS11_CKK_SHA224_HMAC
                       [] proc_id = PKCS11_CKM_SHA256_HMAC ->
                             PKCS11_CKK_SHA256_HMAC
                       [] proc_id = PKCS11_CKM_SHA384_HMAC ->
                             PKCS11_CKK_SHA384_HMAC
                       [] proc_id = PKCS11_CKM_SHA512_HMAC ->
                             PKCS11_CKK_SHA512_HMAC
                 THEN "break"
                 ELSE PKCS11_CKR_KEY_FUNCTION_NOT_PERMITTED
           [] proc_id \in { PKCS11_CKM_ECDSA, PKCS11_CKM_ECDSA_SHA1,
                            PKCS11_CKM_ECDSA_SHA224, PKCS11_CKM_ECDSA_SHA256,
                            PKCS11_CKM_ECDSA_SHA384, PKCS11_CKM_ECDSA_SHA512,
                            PKCS11_CKM_ECDH1_DERIVE,
                            PKCS11_CKM_ECDH1_COFACTOR_DERIVE,
                            PKCS11_CKM_ECMQV_DERIVE,
                            PKCS11_CKM_ECDH_AES_KEY_WRAP } ->
                 IF \/ key_type # PKCS11_CKK_EC
                    \/ /\ key_class # PKCS11_CKO_PUBLIC_KEY
                       /\ key_class # PKCS11_CKO_PRIVATE_KEY
                 THEN PKCS11_CKR_KEY_FUNCTION_NOT_PERMITTED
                 ELSE "break"
           [] proc_id \in { PKCS11_CKM_RSA_PKCS, PKCS11_CKM_RSA_9796,
                            PKCS11_CKM_RSA_X_509, PKCS11_CKM_SHA1_RSA_PKCS,
                            PKCS11_CKM_RSA_PKCS_OAEP,
                            PKCS11_CKM_SHA1_RSA_PKCS_PSS,
                            PKCS11_CKM_SHA256_RSA_PKCS,
                            PKCS11_CKM_SHA384_RSA_PKCS,
                            PKCS11_CKM_SHA512_RSA_PKCS,
                            PKCS11_CKM_SHA256_RSA_PKCS_PSS,
                            PKCS11_CKM_SHA384_RSA_PKCS_PSS,
                            PKCS11_CKM_SHA512_RSA_PKCS_PSS,
                            PKCS11_CKM_SHA224_RSA_PKCS,
                            PKCS11_CKM_SHA224_RSA_PKCS_PSS,
                            PKCS11_CKM_RSA_AES_KEY_WRAP } ->
                 IF \/ key_type # PKCS11_CKK_RSA
                    \/ /\ key_class # PKCS11_CKO_PUBLIC_KEY
                       /\ key_class # PKCS11_CKO_PRIVATE_KEY
                 THEN PKCS11_CKR_KEY_FUNCTION_NOT_PERMITTED
                 ELSE "break"
           [] OTHER -> PKCS11_CKR_KEY_FUNCTION_NOT_PERMITTED,
         LAMBDA rc :
             IF rc # "break" THEN rc
             ELSE IF ~parent_key_complies_allowed_processings(proc_id, head)
             THEN PKCS11_CKR_KEY_FUNCTION_NOT_PERMITTED
             ELSE PKCS11_CKR_OK)

\* check_parent_attrs_against_processing(), from its switch (proc_id) on:
\* the key is of the family of the mechanism and allows the mechanism
check_parent_key_family(proc_id, key_class, key_type, head) ==
    With(CASE proc_id \in { PKCS11_CKM_AES_ECB, PKCS11_CKM_AES_CBC,
                            PKCS11_CKM_AES_CBC_PAD, PKCS11_CKM_AES_CTS,
                            PKCS11_CKM_AES_CTR, PKCS11_CKM_AES_GCM,
                            PKCS11_CKM_AES_CCM, PKCS11_CKM_AES_CMAC,
                            PKCS11_CKM_AES_CMAC_GENERAL,
                            PKCS11_CKM_AES_XCBC_MAC } ->
                 IF /\ key_class = PKCS11_CKO_SECRET_KEY
                    /\ key_type = PKCS11_CKK_AES
                 THEN "break"
                 ELSE PKCS11_CKR_KEY_FUNCTION_NOT_PERMITTED
           [] proc_id \in { PKCS11_CKM_MD5_HMAC, PKCS11_CKM_SHA_1_HMAC,
                            PKCS11_CKM_SHA224_HMAC, PKCS11_CKM_SHA256_HMAC,
                            PKCS11_CKM_SHA384_HMAC,
                            PKCS11_CKM_SHA512_HMAC } ->
                 IF key_class # PKCS11_CKO_SECRET_KEY
                 THEN PKCS11_CKR_KEY_FUNCTION_NOT_PERMITTED
                 ELSE IF key_type = PKCS11_CKK_GENERIC_SECRET THEN "break"
                 ELSE IF key_type =
                     CASE proc_id = PKCS11_CKM_MD5_HMAC ->
                             PKCS11_CKK_MD5_HMAC
                       [] proc_id = PKCS11_CKM_SHA_1_HMAC ->
                             PKCS11_CKK_SHA_1_HMAC
                       [] proc_id = PKCS11_CKM_SHA224_HMAC ->
                             PKCS11_CKK_SHA224_HMAC
                       [] proc_id = PKCS11_CKM_SHA256_HMAC ->
                             PKCS11_CKK_SHA256_HMAC
                       [] proc_id = PKCS11_CKM_SHA384_HMAC ->
                             PKCS11_CKK_SHA384_HMAC
                       [] proc_id = PKCS11_CKM_SHA512_HMAC ->
                             PKCS11_CKK_SHA512_HMAC
                 THEN "break"
                 ELSE PKCS11_CKR_KEY_FUNCTION_NOT_PERMITTED
           [] proc_id \in { PKCS11_CKM_ECDSA, PKCS11_CKM_ECDSA_SHA1,
                            PKCS11_CKM_ECDSA_SHA224, PKCS11_CKM_ECDSA_SHA256,
                            PKCS11_CKM_ECDSA_SHA384, PKCS11_CKM_ECDSA_SHA512,
                            PKCS11_CKM_ECDH1_DERIVE,
                            PKCS11_CKM_ECDH1_COFACTOR_DERIVE,
                            PKCS11_CKM_ECMQV_DERIVE,
                            PKCS11_CKM_ECDH_AES_KEY_WRAP } ->
                 IF \/ key_type # PKCS11_CKK_EC
                    \/ /\ key_class # PKCS11_CKO_PUBLIC_KEY
                       /\ key_class # PKCS11_CKO_PRIVATE_KEY
                 THEN PKCS11_CKR_KEY_FUNCTION_NOT_PERMITTED
                 ELSE "break"
           [] proc_id \in { PKCS11_CKM_RSA_PKCS, PKCS11_CKM_RSA_9796,
                            PKCS11_CKM_RSA_X_509, PKCS11_CKM_SHA1_RSA_PKCS,
                            PKCS11_CKM_RSA_PKCS_OAEP,
                            PKCS11_CKM_SHA1_RSA_PKCS_PSS,
                            PKCS11_CKM_SHA256_RSA_PKCS,
                            PKCS11_CKM_SHA384_RSA_PKCS,
                            PKCS11_CKM_SHA512_RSA_PKCS,
                            PKCS11_CKM_SHA256_RSA_PKCS_PSS,
                            PKCS11_CKM_SHA384_RSA_PKCS_PSS,
                            PKCS11_CKM_SHA512_RSA_PKCS_PSS,
                            PKCS11_CKM_SHA224_RSA_PKCS,
                            PKCS11_CKM_SHA224_RSA_PKCS_PSS,
                            PKCS11_CKM_RSA_AES_KEY_WRAP } ->
                 IF \/ key_type # PKCS11_CKK_RSA
                    \/ /\ key_class # PKCS11_CKO_PUBLIC_KEY
                       /\ key_class # PKCS11_CKO_PRIVATE_KEY
                 THEN PKCS11_CKR_KEY_FUNCTION_NOT_PERMITTED
                 ELSE "break"
           [] OTHER -> PKCS11_CKR_MECHANISM_INVALID,
         LAMBDA rc :
             IF rc # "break" THEN rc
             ELSE IF ~parent_key_complies_allowed_processings(proc_id, head)
             THEN PKCS11_CKR_KEY_FUNCTION_NOT_PERMITTED
             ELSE PKCS11_CKR_OK)

\* check_parent_attrs_against_processing(): the parent key may be used for
\* function with mechanism proc_id
check_parent_attrs_against_processing(proc_id, function_, head) ==
    IF \/ /\ function_ = PKCS11_FUNCTION_ENCRYPT
          /\ ~get_bool(head, PKCS11_CKA_ENCRYPT)
       \/ /\ function_ = PKCS11_FUNCTION_DECRYPT
          /\ ~get_bool(head, PKCS11_CKA_DECRYPT)
       \/ /\ function_ = PKCS11_FUNCTION_SIGN
          /\ ~get_bool(head, PKCS11_CKA_SIGN)
       \/ /\ function_ = PKCS11_FUNCTION_VERIFY
          /\ ~get_bool(head, PKCS11_CKA_VERIFY)
       \/ /\ function_ = PKCS11_FUNCTION_WRAP
          /\ ~get_bool(head, PKCS11_CKA_WRAP)
       \/ /\ function_ = PKCS11_FUNCTION_UNWRAP
          /\ ~get_bool(head, PKCS11_CKA_UNWRAP)
       \/ /\ function_ = PKCS11_FUNCTION_DERIVE
          /\ ~get_bool(head, PKCS11_CKA_DERIVE)
    THEN PKCS11_CKR_KEY_FUNCTION_NOT_PERMITTED
    ELSE check_parent_key_family(proc_id, get_class(head), get_type(head),
                                 head)

-----------------------------------------------------------------------------
(* The parent key check on every parent: the check is applied to a mechanism
   and a function a client picks, with a key of the token *)

\* The usage attributes of a key
UsageAttributes ==
    << PKCS11_CKA_ENCRYPT, PKCS11_CKA_DECRYPT, PKCS11_CKA_SIGN,
       PKCS11_CKA_VERIFY, PKCS11_CKA_WRAP, PKCS11_CKA_UNWRAP,
       PKCS11_CKA_DERIVE >>

\* A key's usage attributes, true for those of usage
UsageEntries(usage) ==
    [ n \in 1..Len(UsageAttributes) |->
        Attr(UsageAttributes[n], 1,
             IF UsageAttributes[n] \in usage THEN PKCS11_TRUE
             ELSE PKCS11_FALSE) ]

\* What the keys of the token may be used for; a key of no usage has none
\* of the usage attributes
KeyUsages ==
    { {},
      { PKCS11_CKA_SIGN, PKCS11_CKA_VERIFY, PKCS11_CKA_DERIVE },
      { PKCS11_CKA_ENCRYPT, PKCS11_CKA_DECRYPT, PKCS11_CKA_SIGN,
        PKCS11_CKA_VERIFY, PKCS11_CKA_WRAP, PKCS11_CKA_UNWRAP,
        PKCS11_CKA_DERIVE } }

\* The ALLOWED_MECHANISMS entry that holds AllowedLists[n], none for n = 0
AllowedEntry(n) ==
    IF n = 0 THEN << >>
    ELSE << Attr(PKCS11_CKA_ALLOWED_MECHANISMS, 4 * Len(AllowedLists[n]),
                 n) >>

\* The objects a client names as the parent of a processing: keys of each
\* class and type, and a data object
ParentKeys ==
    { << Attr(PKCS11_CKA_CLASS, 4, class), Attr(PKCS11_CKA_KEY_TYPE, 4, type) >>
      \o (IF usage = {} THEN << >> ELSE UsageEntries(usage))
      \o AllowedEntry(n) :
        class \in { PKCS11_CKO_SECRET_KEY, PKCS11_CKO_PUBLIC_KEY,
                    PKCS11_CKO_PRIVATE_KEY },
        type \in { PKCS11_CKK_AES, PKCS11_CKK_GENERIC_SECRET,
                   PKCS11_CKK_SHA256_HMAC, PKCS11_CKK_MD5_HMAC,
                   PKCS11_CKK_EC, PKCS11_CKK_RSA },
        usage \in KeyUsages, n \in 0..Len(AllowedLists) }
    \cup { << Attr(PKCS11_CKA_CLASS, 4, PKCS11_CKO_DATA) >> }

InitParent ==
    /\ phase = "parent"
    /\ template = << >>
    /\ function = "none"
    /\ parent = NoObject
    /\ temp = NoObject
    /\ out = NoObject
    /\ rv = PKCS11_CKR_OK
    /\ mechanism = PKCS11_UNDEFINED_ID
    /\ step = "none"
    /\ processing = NoProcessing
    /\ key \in ParentKeys
    /\ trace = << >>
    /\ heap = 0
    /\ session_state = NoSession
    /\ db = NoDatabase
    /\ dt = NoProbe

CheckParent ==
    /\ phase = "parent"
    /\ \E proc_id \in Mechanisms, function_ \in processing_func :
          /\ mechanism' = proc_id
          /\ function' = function_
          /\ rv' = check_parent_attrs_against_processing(proc_id, function_,
                                                         key)
    /\ phase' = "parent_checked"
    /\ UNCHANGED <<template, parent, temp, out, step, processing, key,
                   trace,
                   session_state, db, dt>>
    /\ UNCHANGED heap

NextParent == CheckParent

SpecParent == InitParent /\ [][NextParent]_vars

-----------------------------------------------------------------------------
(* Created object against processing (pkcs11_attributes.c) *)

\* Vendor id of the import processing, 0x80000000
PKCS11_PROCESSING_IMPORT == -2147483647 - 1

\* check_created_attrs_against_processing(): the attributes of a new object
\* match the mechanism that creates it; get_attribute() is given no size
check_created_attrs_against_processing(proc_id, head) ==
    With(get_attribute_ptr(head, PKCS11_CKA_LOCAL), LAMBDA local :
        CASE proc_id \in { PKCS11_PROCESSING_IMPORT, PKCS11_CKM_ECDH1_DERIVE,
                           PKCS11_CKM_ECDH1_COFACTOR_DERIVE,
                           PKCS11_CKM_DH_PKCS_DERIVE }
             /\ (local.rc # PKCS11_CKR_OK \/ local.val # 0)
             -> PKCS11_CKR_TEMPLATE_INCONSISTENT
          [] proc_id \in { PKCS11_CKM_GENERIC_SECRET_KEY_GEN,
                           PKCS11_CKM_AES_KEY_GEN, PKCS11_CKM_EC_KEY_PAIR_GEN,
                           PKCS11_CKM_RSA_PKCS_KEY_PAIR_GEN }
             /\ (local.rc # PKCS11_CKR_OK \/ local.val = 0)
             -> PKCS11_CKR_TEMPLATE_INCONSISTENT
          [] proc_id \notin { PKCS11_PROCESSING_IMPORT,
                              PKCS11_CKM_ECDH1_DERIVE,
                              PKCS11_CKM_ECDH1_COFACTOR_DERIVE,
                              PKCS11_CKM_DH_PKCS_DERIVE,
                              PKCS11_CKM_GENERIC_SECRET_KEY_GEN,
                              PKCS11_CKM_AES_KEY_GEN,
                              PKCS11_CKM_EC_KEY_PAIR_GEN,
                              PKCS11_CKM_RSA_PKCS_KEY_PAIR_GEN }
             -> PANIC
          [] proc_id = PKCS11_CKM_GENERIC_SECRET_KEY_GEN
             /\ get_type(head) # PKCS11_CKK_GENERIC_SECRET
             -> PKCS11_CKR_TEMPLATE_INCONSISTENT
          [] proc_id = PKCS11_CKM_AES_KEY_GEN
             /\ get_type(head) # PKCS11_CKK_AES
             -> PKCS11_CKR_TEMPLATE_INCONSISTENT
          [] proc_id = PKCS11_CKM_EC_KEY_PAIR_GEN
             /\ get_type(head) # PKCS11_CKK_EC
             -> PKCS11_CKR_TEMPLATE_INCONSISTENT
          [] proc_id = PKCS11_CKM_RSA_PKCS_KEY_PAIR_GEN
             /\ get_type(head) # PKCS11_CKK_RSA
             -> PKCS11_CKR_TEMPLATE_INCONSISTENT
          [] proc_id \in { PKCS11_CKM_ECDH1_DERIVE,
                           PKCS11_CKM_ECDH1_COFACTOR_DERIVE,
                           PKCS11_CKM_DH_PKCS_DERIVE }
             /\ get_class(head) # PKCS11_CKO_SECRET_KEY
             -> PKCS11_CKR_TEMPLATE_INCONSISTENT
          [] OTHER -> PKCS11_CKR_OK)

-----------------------------------------------------------------------------
(* The created object check on every new object: the check is applied to a
   to-be-created object and the processing that creates it *)

\* The processings of a creation: the mechanisms and the import
CreationProcessings == Mechanisms \cup { PKCS11_PROCESSING_IMPORT }

\* The to-be-created objects: of each class and key type, with LOCAL set,
\* cleared or missing
CreatedObjects ==
    { << Attr(PKCS11_CKA_CLASS, 4, class), Attr(PKCS11_CKA_KEY_TYPE, 4, type) >>
      \o local :
        class \in { PKCS11_CKO_SECRET_KEY, PKCS11_CKO_PUBLIC_KEY,
                    PKCS11_CKO_PRIVATE_KEY, PKCS11_CKO_DATA },
        type \in { PKCS11_CKK_AES, PKCS11_CKK_GENERIC_SECRET, PKCS11_CKK_EC,
                   PKCS11_CKK_RSA },
        local \in { << >>, << Attr(PKCS11_CKA_LOCAL, 1, PKCS11_FALSE) >>,
                    << Attr(PKCS11_CKA_LOCAL, 1, PKCS11_TRUE) >> } }

InitCreated ==
    /\ phase = "created"
    /\ template = << >>
    /\ function = "none"
    /\ parent = NoObject
    /\ temp = NoObject
    /\ out \in CreatedObjects
    /\ rv = PKCS11_CKR_OK
    /\ mechanism = PKCS11_UNDEFINED_ID
    /\ step = "none"
    /\ processing = NoProcessing
    /\ key = NoObject
    /\ trace = << >>
    /\ heap = 0
    /\ session_state = NoSession
    /\ db = NoDatabase
    /\ dt = NoProbe

CheckCreated ==
    /\ phase = "created"
    /\ \E proc_id \in CreationProcessings :
          /\ mechanism' = proc_id
          /\ rv' = check_created_attrs_against_processing(proc_id, out)
    /\ phase' = "created_checked"
    /\ UNCHANGED <<template, function, parent, temp, out, step, processing,
                   key, trace,
                   session_state, db, dt>>
    /\ UNCHANGED heap

NextCreated == CheckCreated

SpecCreated == InitCreated /\ [][NextCreated]_vars

-----------------------------------------------------------------------------
(* Created object sizes (pkcs11_attributes.c) *)

PKCS11_CKR_ATTRIBUTE_VALUE_INVALID == "CKR_ATTRIBUTE_VALUE_INVALID"
PKCS11_CKR_KEY_SIZE_RANGE == "CKR_KEY_SIZE_RANGE"

\* get_u32_attribute(): get_attribute() with *attr_size = 4; its return code
\* is handed back as it is, PKCS11_RV_NOT_FOUND included
get_u32_attribute(head, attribute) ==
    get_attribute(head, attribute, 4)

\* mechanism_supported_key_sizes(): the key size bounds of the catalog, in
\* bytes for AES and in bits for RSA; no bound for a mechanism it does not list
mechanism_supported_key_sizes(mechanism_type) ==
    CASE mechanism_type = PKCS11_CKM_AES_KEY_GEN
         -> [min_key_size |-> 16, max_key_size |-> 32]
      [] mechanism_type = PKCS11_CKM_RSA_PKCS_KEY_PAIR_GEN
         -> [min_key_size |-> 512, max_key_size |-> 4096]
      [] OTHER -> [min_key_size |-> 0, max_key_size |-> 0]

\* get_key_min_max_sizes(): the bounds of the mechanism that generates keys
\* of this type; TEE_Panic() on any other key type
get_key_min_max_sizes(key_type) ==
    IF key_type \notin { PKCS11_CKK_GENERIC_SECRET, PKCS11_CKK_MD5_HMAC,
                         PKCS11_CKK_SHA_1_HMAC, PKCS11_CKK_SHA224_HMAC,
                         PKCS11_CKK_SHA256_HMAC, PKCS11_CKK_SHA384_HMAC,
                         PKCS11_CKK_SHA512_HMAC, PKCS11_CKK_AES,
                         PKCS11_CKK_EC, PKCS11_CKK_RSA, PKCS11_CKK_DSA,
                         PKCS11_CKK_DH }
    THEN [rc |-> PANIC, min_key_size |-> 0, max_key_size |-> 0]
    ELSE With(mechanism_supported_key_sizes(
                  CASE key_type = PKCS11_CKK_GENERIC_SECRET
                       -> PKCS11_CKM_GENERIC_SECRET_KEY_GEN
                    [] key_type = PKCS11_CKK_MD5_HMAC
                       -> PKCS11_CKM_MD5_HMAC
                    [] key_type = PKCS11_CKK_SHA_1_HMAC
                       -> PKCS11_CKM_SHA_1_HMAC
                    [] key_type = PKCS11_CKK_SHA224_HMAC
                       -> PKCS11_CKM_SHA224_HMAC
                    [] key_type = PKCS11_CKK_SHA256_HMAC
                       -> PKCS11_CKM_SHA256_HMAC
                    [] key_type = PKCS11_CKK_SHA384_HMAC
                       -> PKCS11_CKM_SHA384_HMAC
                    [] key_type = PKCS11_CKK_SHA512_HMAC
                       -> PKCS11_CKM_SHA512_HMAC
                    [] key_type = PKCS11_CKK_AES
                       -> PKCS11_CKM_AES_KEY_GEN
                    [] key_type = PKCS11_CKK_EC
                       -> PKCS11_CKM_EC_KEY_PAIR_GEN
                    [] OTHER -> PKCS11_CKM_RSA_PKCS_KEY_PAIR_GEN),
              LAMBDA sizes :
                  [rc |-> PKCS11_CKR_OK, min_key_size |-> sizes.min_key_size,
                   max_key_size |-> sizes.max_key_size])

\* check_created_attrs(), from the key sizes on: key_length against the
\* bounds of key1's type
check_key_size(key1, key_length) ==
    IF get_type(key1) = PKCS11_CKK_EC THEN PKCS11_CKR_OK
    ELSE With(get_key_min_max_sizes(get_type(key1)), LAMBDA sizes :
        IF sizes.rc = PANIC THEN PANIC
        ELSE IF key_length < sizes.min_key_size
                \/ key_length > sizes.max_key_size
        THEN PKCS11_CKR_KEY_SIZE_RANGE
        ELSE PKCS11_CKR_OK)

\* check_created_attrs(), if (private): the key length is read from a
\* private key that comes without its public key
check_private_key_size(key1, private, public, key_length) ==
    IF private = NoObject THEN check_key_size(key1, key_length)
    ELSE IF get_type(private) \in { PKCS11_CKK_RSA, PKCS11_CKK_DSA,
                                     PKCS11_CKK_DH }
    THEN IF public # NoObject THEN check_key_size(key1, key_length)
         ELSE With(get_u32_attribute(private, PKCS11_CKA_MODULUS_BITS),
                   LAMBDA bits :
                       IF bits.rc # PKCS11_CKR_OK THEN bits.rc
                       ELSE check_key_size(key1, bits.val))
    ELSE IF get_type(private) = PKCS11_CKK_EC
    THEN check_key_size(key1, key_length)
    ELSE PKCS11_CKR_TEMPLATE_INCONSISTENT

\* check_created_attrs(), if (public)
check_public_key_size(key1, private, public, key_length) ==
    IF public = NoObject
    THEN check_private_key_size(key1, private, public, key_length)
    ELSE IF get_type(public) \in { PKCS11_CKK_RSA, PKCS11_CKK_DSA,
                                    PKCS11_CKK_DH }
    THEN With(get_u32_attribute(public, PKCS11_CKA_MODULUS_BITS),
              LAMBDA bits :
                  IF bits.rc # PKCS11_CKR_OK THEN bits.rc
                  ELSE check_private_key_size(key1, private, public,
                                              bits.val))
    ELSE IF get_type(public) = PKCS11_CKK_EC
    THEN check_private_key_size(key1, private, public, key_length)
    ELSE PKCS11_CKR_TEMPLATE_INCONSISTENT

\* check_created_attrs(), if (secret)
check_secret_key_size(key1, secret, private, public) ==
    IF secret = NoObject THEN check_public_key_size(key1, private, public, 0)
    ELSE IF get_type(secret) \notin
                { PKCS11_CKK_AES, PKCS11_CKK_GENERIC_SECRET,
                  PKCS11_CKK_MD5_HMAC, PKCS11_CKK_SHA_1_HMAC,
                  PKCS11_CKK_SHA224_HMAC, PKCS11_CKK_SHA256_HMAC,
                  PKCS11_CKK_SHA384_HMAC, PKCS11_CKK_SHA512_HMAC }
    THEN PKCS11_CKR_TEMPLATE_INCONSISTENT
    ELSE With(get_u32_attribute(secret, PKCS11_CKA_VALUE_LEN),
              LAMBDA len :
                  IF len.rc # PKCS11_CKR_OK THEN len.rc
                  ELSE check_public_key_size(key1, private, public,
                                             len.val))

\* check_created_attrs(): key2 is NoObject when the caller passes NULL
check_created_attrs(key1, key2) ==
    With(get_class(key1), LAMBDA class1 :
        IF class1 \notin { PKCS11_CKO_SECRET_KEY, PKCS11_CKO_PUBLIC_KEY,
                           PKCS11_CKO_PRIVATE_KEY }
        THEN PKCS11_CKR_ATTRIBUTE_VALUE_INVALID
        ELSE IF key2 = NoObject
        THEN check_secret_key_size(
                 key1,
                 IF class1 = PKCS11_CKO_SECRET_KEY THEN key1 ELSE NoObject,
                 IF class1 = PKCS11_CKO_PRIVATE_KEY THEN key1 ELSE NoObject,
                 IF class1 = PKCS11_CKO_PUBLIC_KEY THEN key1 ELSE NoObject)
        ELSE With(get_class(key2), LAMBDA class2 :
            CASE class2 = PKCS11_CKO_PUBLIC_KEY
                 -> IF class1 # PKCS11_CKO_PRIVATE_KEY
                    THEN PKCS11_CKR_TEMPLATE_INCONSISTENT
                    ELSE IF get_type(key1) # get_type(key2)
                    THEN PKCS11_CKR_TEMPLATE_INCONSISTENT
                    ELSE check_secret_key_size(key1, NoObject, key1, key2)
              [] class2 = PKCS11_CKO_PRIVATE_KEY
                 -> IF class1 # PKCS11_CKO_PUBLIC_KEY
                    THEN PKCS11_CKR_TEMPLATE_INCONSISTENT
                    ELSE IF get_type(key2) # get_type(key1)
                    THEN PKCS11_CKR_TEMPLATE_INCONSISTENT
                    ELSE check_secret_key_size(key1, NoObject, key2, key1)
              [] OTHER -> PKCS11_CKR_ATTRIBUTE_VALUE_INVALID))

-----------------------------------------------------------------------------
(* The size check on the objects the builder builds: a command builds one
   object, or the two objects of a key pair, and checks them *)

\* Entries of the templates of the new keys
SizeEntries ==
    { << >>,
      << Attr(PKCS11_CKA_VALUE_LEN, 4, 32) >>,
      << Attr(PKCS11_CKA_VALUE_LEN, 4, 64) >>,
      << Attr(PKCS11_CKA_MODULUS_BITS, 4, 2048) >>,
      << Attr(PKCS11_CKA_MODULUS_BITS, 4, 256) >> }

KeyTemplates ==
    { << Attr(PKCS11_CKA_CLASS, 4, class), Attr(PKCS11_CKA_KEY_TYPE, 4, type) >>
      \o size :
        class \in { PKCS11_CKO_SECRET_KEY, PKCS11_CKO_PUBLIC_KEY,
                    PKCS11_CKO_PRIVATE_KEY, PKCS11_CKO_DATA },
        type \in { PKCS11_CKK_AES, PKCS11_CKK_RSA, PKCS11_CKK_EC },
        size \in SizeEntries }

InitSizes ==
    /\ phase = "template"
    /\ template \in KeyTemplates
    /\ function = "none"
    /\ parent = NoObject
    /\ temp = NoObject
    /\ out = NoObject
    /\ rv = PKCS11_CKR_OK
    /\ mechanism = PKCS11_UNDEFINED_ID
    /\ step = "none"
    /\ processing = NoProcessing
    /\ key = NoObject
    /\ trace = << >>
    /\ heap = 0
    /\ session_state = NoSession
    /\ db = NoDatabase
    /\ dt = NoProbe

\* The command ends when create_attributes_from_template() fails, or with the
\* result of check_created_attrs() on the object it built
ReturnChecked(function_, r) ==
    /\ phase' = "sized"
    /\ function' = function_
    /\ temp' = r.temp
    /\ out' = r.out
    /\ rv' = IF r.rv # PKCS11_CKR_OK THEN r.rv
             ELSE check_created_attrs(r.out, NoObject)
    /\ UNCHANGED <<template, parent, mechanism, step, processing, key, trace,
                   session_state, db, dt>>
    /\ heap' = r.heap

\* entry_import_object() and entry_generate_secret(): one object is built
\* and checked
CreateAndCheck ==
    /\ phase = "template"
    /\ key = NoObject
    /\ \E function_ \in { PKCS11_FUNCTION_IMPORT, PKCS11_FUNCTION_GENERATE } :
          ReturnChecked(function_,
                        create_attributes_from_template(template, FALSE,
                                                        NoObject, function_))

\* The other key of a pair is sent in a second template
PairTemplate ==
    /\ phase = "template"
    /\ key = NoObject
    /\ \E t \in KeyTemplates :
          With(create_attributes_from_template(
                   t, FALSE, NoObject, PKCS11_FUNCTION_GENERATE_PAIR),
               LAMBDA r :
                   /\ r.rv = PKCS11_CKR_OK
                   /\ key' = r.out
                   /\ heap' = heap + r.heap)
    /\ UNCHANGED <<phase, template, function, parent, temp, out, rv,
                   mechanism, step, processing, trace,
                   session_state, db, dt>>

\* entry_generate_key_pair(): the two objects are built, then checked together
CreatePairAndCheck ==
    /\ phase = "template"
    /\ key # NoObject
    /\ With(create_attributes_from_template(
                template, FALSE, NoObject, PKCS11_FUNCTION_GENERATE_PAIR),
            LAMBDA r :
                /\ phase' = "sized"
                /\ function' = PKCS11_FUNCTION_GENERATE_PAIR
                /\ temp' = r.temp
                /\ out' = r.out
                /\ rv' = IF r.rv # PKCS11_CKR_OK THEN r.rv
                         ELSE check_created_attrs(r.out, key)
                /\ heap' = heap + r.heap)
    /\ UNCHANGED <<template, parent, mechanism, step, processing, key, trace,
                   session_state, db, dt>>

NextSizes ==
    \/ CreateAndCheck
    \/ PairTemplate
    \/ CreatePairAndCheck

SpecSizes == InitSizes /\ [][NextSizes]_vars

-----------------------------------------------------------------------------
(* The sanitizer on raw client templates: a template is sanitized, and the
   attribute list that comes out is sanitized again *)

\* Longest raw template, in entries
MaxRawLen == 3

\* A template valued attribute: its size is the nested header and entries
Indirect(id, nested) == Attr(id, AttrsHeadSize + attrs_size(nested), nested)

\* The entries of the raw templates: classes with the undefined id among
\* them, key types, boolean properties, an attribute of the catalog, nested
\* templates and a nested template cut short
RawEntries ==
    { Attr(PKCS11_CKA_CLASS, 4, PKCS11_CKO_SECRET_KEY),
      Attr(PKCS11_CKA_CLASS, 4, PKCS11_CKO_DATA),
      Attr(PKCS11_CKA_CLASS, 4, PKCS11_CKO_UNDEFINED_ID),
      Attr(PKCS11_CKA_KEY_TYPE, 4, PKCS11_CKK_AES),
      Attr(PKCS11_CKA_KEY_TYPE, 4, PKCS11_CKK_RSA),
      Attr(PKCS11_CKA_SENSITIVE, 1, PKCS11_TRUE),
      Attr(PKCS11_CKA_SENSITIVE, 1, PKCS11_FALSE),
      Attr(PKCS11_CKA_TOKEN, 1, PKCS11_TRUE),
      Attr(PKCS11_CKA_PRIVATE, 1, PKCS11_TRUE),
      Attr(PKCS11_CKA_LABEL, 2, 1),
      Attr(PKCS11_CKA_LABEL, 2, 2),
      Attr(PKCS11_CKA_WRAP_TEMPLATE, AttrsHeadSize, AesKeyTemplate) }
    \cup { Indirect(PKCS11_CKA_WRAP_TEMPLATE, nested) :
             nested \in IndirectTemplates }

RawTemplates == UNION { [1..n -> RawEntries] : n \in 0..MaxRawLen }

InitSanitize ==
    /\ phase = "raw"
    /\ template \in RawTemplates
    /\ function = "none"
    /\ parent = NoObject
    /\ temp = NoObject
    /\ out = NoObject
    /\ rv = PKCS11_CKR_OK
    /\ mechanism = PKCS11_UNDEFINED_ID
    /\ step = "none"
    /\ processing = NoProcessing
    /\ key = NoObject
    /\ trace = << >>
    /\ heap = 0
    /\ session_state = NoSession
    /\ db = NoDatabase
    /\ dt = NoProbe

\* sanitize_client_object() on the raw template
SanitizeTemplate ==
    /\ phase = "raw"
    /\ \E too_short \in BOOLEAN :
          With(sanitize_client_object(template, too_short), LAMBDA r :
              /\ rv' = r.rc
              /\ out' = r.dst
              /\ heap' = r.heap)
    /\ phase' = "sanitized"
    /\ UNCHANGED <<template, function, parent, temp, mechanism, step,
                   processing, key, trace,
                   session_state, db, dt>>

\* sanitize_client_object() on the attribute list it produced: struct
\* obj_attrs and struct pkcs11_object_head have the same layout
SanitizeAgain ==
    /\ phase = "sanitized"
    /\ rv = PKCS11_CKR_OK
    /\ With(sanitize_client_object(out, FALSE), LAMBDA r :
          /\ rv' = r.rc
          /\ temp' = r.dst
          /\ heap' = heap + r.heap)
    /\ phase' = "sanitized_again"
    /\ UNCHANGED <<template, function, parent, out, mechanism, step,
                   processing, key, trace,
                   session_state, db, dt>>

NextSanitize ==
    \/ SanitizeTemplate
    \/ SanitizeAgain

SpecSanitize == InitSanitize /\ [][NextSanitize]_vars

-----------------------------------------------------------------------------
(* The builder on raw client templates: a command builds the attributes of
   a new object from a raw template, nested templates included *)

\* A command that calls create_attributes_from_template() on the raw template
BuildFromRaw ==
    /\ phase = "raw"
    /\ \E function_ \in { PKCS11_FUNCTION_IMPORT, PKCS11_FUNCTION_GENERATE,
                          PKCS11_FUNCTION_GENERATE_PAIR },
          too_short \in BOOLEAN :
          ReturnObject(function_, NoObject,
                       create_attributes_from_template(template, too_short,
                                                       NoObject, function_))

NextRawBuilder == BuildFromRaw

SpecRawBuilder == InitSanitize /\ [][NextRawBuilder]_vars

-----------------------------------------------------------------------------
(* Missing ID attribute (pkcs11_attributes.c) *)

PKCS11_CKA_DEFAULT_SIZE == 16

\* add_missing_attribute_id() if it gave the generated id to attrs1 only
add_generated_attribute_id_first_only(attrs1, attrs2, id, malloc_ok, add_ok) ==
    IF ~malloc_ok \/ ~add_ok[1]
    THEN [rv |-> PKCS11_CKR_DEVICE_MEMORY, attrs1 |-> attrs1,
          attrs2 |-> attrs2]
    ELSE [rv |-> PKCS11_CKR_OK,
          attrs1 |-> add_attribute(attrs1, PKCS11_CKA_ID, id,
                                   PKCS11_CKA_DEFAULT_SIZE),
          attrs2 |-> attrs2]

\* add_missing_attribute_id(), the last part: a fresh id of
\* PKCS11_CKA_DEFAULT_SIZE bytes is added to attrs1, then to attrs2.  id is
\* what TEE_GenerateRandom() wrote, malloc_ok tells that TEE_Malloc() found
\* the memory, add_ok[n] that the n-th add_attribute() did; add_attribute()
\* leaves the list as it is when it fails
add_generated_attribute_id(attrs1, attrs2, id, malloc_ok, add_ok) ==
    IF ~malloc_ok
    THEN [rv |-> PKCS11_CKR_DEVICE_MEMORY, attrs1 |-> attrs1,
          attrs2 |-> attrs2]
    ELSE IF ~add_ok[1]
    THEN [rv |-> PKCS11_CKR_DEVICE_MEMORY, attrs1 |-> attrs1,
          attrs2 |-> attrs2]
    ELSE IF attrs2 = NoObject
    THEN [rv |-> PKCS11_CKR_OK,
          attrs1 |-> add_attribute(attrs1, PKCS11_CKA_ID, id,
                                   PKCS11_CKA_DEFAULT_SIZE),
          attrs2 |-> attrs2]
    ELSE IF ~add_ok[2]
    THEN [rv |-> PKCS11_CKR_DEVICE_MEMORY,
          attrs1 |-> add_attribute(attrs1, PKCS11_CKA_ID, id,
                                   PKCS11_CKA_DEFAULT_SIZE),
          attrs2 |-> attrs2]
    ELSE [rv |-> PKCS11_CKR_OK,
          attrs1 |-> add_attribute(attrs1, PKCS11_CKA_ID, id,
                                   PKCS11_CKA_DEFAULT_SIZE),
          attrs2 |-> add_attribute(attrs2, PKCS11_CKA_ID, id,
                                   PKCS11_CKA_DEFAULT_SIZE)]

\* add_missing_attribute_id(): attrs2 is NoObject when the caller passes
\* NULL; it yields [rv, attrs1, attrs2], the two lists as the call leaves them
add_missing_attribute_id(attrs1, attrs2, id, malloc_ok, add_ok) ==
    With(get_attribute_ptr(attrs1, PKCS11_CKA_ID), LAMBDA id1 :
        IF attrs2 = NoObject
        THEN IF id1.rc = PKCS11_CKR_OK
             THEN [rv |-> PKCS11_CKR_OK, attrs1 |-> attrs1,
                   attrs2 |-> attrs2]
             ELSE add_generated_attribute_id(attrs1, attrs2, id, malloc_ok,
                                             add_ok)
        ELSE With(get_attribute_ptr(attrs2, PKCS11_CKA_ID), LAMBDA id2 :
            CASE id1.rc = PKCS11_CKR_OK /\ id2.rc = PKCS11_CKR_OK
                 -> [rv |-> PKCS11_CKR_OK, attrs1 |-> attrs1,
                     attrs2 |-> attrs2]
              [] id1.rc = PKCS11_CKR_OK /\ id2.rc # PKCS11_CKR_OK
                 -> IF add_ok[1]
                    THEN [rv |-> PKCS11_CKR_OK, attrs1 |-> attrs1,
                          attrs2 |-> add_attribute(attrs2, PKCS11_CKA_ID,
                                                   id1.val, id1.size)]
                    ELSE [rv |-> PKCS11_CKR_DEVICE_MEMORY,
                          attrs1 |-> attrs1, attrs2 |-> attrs2]
              [] id1.rc # PKCS11_CKR_OK /\ id2.rc = PKCS11_CKR_OK
                 -> IF add_ok[1]
                    THEN [rv |-> PKCS11_CKR_OK,
                          attrs1 |-> add_attribute(attrs1, PKCS11_CKA_ID,
                                                   id2.val, id2.size),
                          attrs2 |-> attrs2]
                    ELSE [rv |-> PKCS11_CKR_DEVICE_MEMORY,
                          attrs1 |-> attrs1, attrs2 |-> attrs2]
              [] OTHER
                 -> add_generated_attribute_id(attrs1, attrs2, id,
                                               malloc_ok, add_ok)))

-----------------------------------------------------------------------------
(* The missing ID on every object and pair of objects: out is *attrs1 and key
   is *attrs2 *)

\* What TEE_GenerateRandom() writes: the value tokens of the fresh ids
GeneratedIds == { 101, 102 }

\* The ID attributes clients give their objects, none included
ClientIds ==
    { << >>, << Attr(PKCS11_CKA_ID, 2, 1) >>, << Attr(PKCS11_CKA_ID, 2, 2) >>,
      << Attr(PKCS11_CKA_ID, 16, 3) >> }

PairObjects ==
    { << Attr(PKCS11_CKA_CLASS, 4, class),
         Attr(PKCS11_CKA_KEY_TYPE, 4, PKCS11_CKK_RSA) >> \o id :
        class \in { PKCS11_CKO_PUBLIC_KEY, PKCS11_CKO_PRIVATE_KEY,
                    PKCS11_CKO_SECRET_KEY },
        id \in ClientIds }

InitPair ==
    /\ phase = "pair"
    /\ template = << >>
    /\ function = "none"
    /\ parent = NoObject
    /\ temp = NoObject
    /\ out \in PairObjects
    /\ rv = PKCS11_CKR_OK
    /\ mechanism = PKCS11_UNDEFINED_ID
    /\ step = "none"
    /\ processing = NoProcessing
    /\ key \in PairObjects \cup { NoObject }
    /\ trace = << >>
    /\ heap = 0
    /\ session_state = NoSession
    /\ db = NoDatabase
    /\ dt = NoProbe

\* A call of add_missing_attribute_id(&out, &key), or of
\* add_missing_attribute_id(&out, NULL) when key is NoObject; id1 is freed
\* before the call returns
AddMissingAttributeId ==
    /\ phase = "pair"
    /\ \E id \in GeneratedIds, malloc_ok \in BOOLEAN,
          add_ok \in [1..2 -> BOOLEAN] :
          With(add_missing_attribute_id(out, key, id, malloc_ok, add_ok),
               LAMBDA r :
                   /\ rv' = r.rv
                   /\ out' = r.attrs1
                   /\ key' = r.attrs2)
    /\ phase' = "pair_id"
    /\ UNCHANGED <<template, function, parent, temp, mechanism, step,
                   processing, trace, heap,
                   session_state, db, dt>>

NextPair == AddMissingAttributeId

SpecPair == InitPair /\ [][NextPair]_vars

-----------------------------------------------------------------------------
(* Object against token and session (pkcs11_attributes.c) *)

PKCS11_CKR_SESSION_READ_ONLY == "CKR_SESSION_READ_ONLY"

\* The session's state as the checks read it: who is logged in ("public",
\* "user" or "so") and whether the session is read-write
pkcs11_session_is_public(session) == session.login = "public"

pkcs11_session_is_so(session) == session.login = "so"

pkcs11_session_is_read_write(session) == session.read_write

check_attrs_misc_integrity(head) ==
    IF get_bool(head, PKCS11_CKA_NEVER_EXTRACTABLE)
       /\ get_bool(head, PKCS11_CKA_EXTRACTABLE)
    THEN PKCS11_CKR_TEMPLATE_INCONSISTENT
    ELSE IF get_bool(head, PKCS11_CKA_ALWAYS_SENSITIVE)
            /\ ~get_bool(head, PKCS11_CKA_SENSITIVE)
    THEN PKCS11_CKR_TEMPLATE_INCONSISTENT
    ELSE PKCS11_CKR_OK

\* check_access_attrs_against_token() if a private key were private only
\* when its PRIVATE attribute says so
check_access_attrs_against_token_by_attribute(session, head) ==
    IF get_class(head) \notin { PKCS11_CKO_SECRET_KEY, PKCS11_CKO_PUBLIC_KEY,
                                PKCS11_CKO_DATA, PKCS11_CKO_PRIVATE_KEY }
    THEN PKCS11_CKR_KEY_FUNCTION_NOT_PERMITTED
    ELSE IF get_bool(head, PKCS11_CKA_PRIVATE)
            /\ pkcs11_session_is_public(session)
    THEN PKCS11_CKR_KEY_FUNCTION_NOT_PERMITTED
    ELSE PKCS11_CKR_OK

\* check_access_attrs_against_token(): private is the local variable
check_access_attrs_against_token(session, head) ==
    IF get_class(head) \notin { PKCS11_CKO_SECRET_KEY, PKCS11_CKO_PUBLIC_KEY,
                                PKCS11_CKO_DATA, PKCS11_CKO_PRIVATE_KEY }
    THEN PKCS11_CKR_KEY_FUNCTION_NOT_PERMITTED
    ELSE With(IF get_class(head) = PKCS11_CKO_PRIVATE_KEY THEN TRUE
              ELSE get_bool(head, PKCS11_CKA_PRIVATE),
              LAMBDA private :
                  IF private /\ pkcs11_session_is_public(session)
                  THEN PKCS11_CKR_KEY_FUNCTION_NOT_PERMITTED
                  ELSE PKCS11_CKR_OK)

\* check_created_attrs_against_token() without check_attrs_misc_integrity()
check_created_attrs_against_token_no_integrity(session, head) ==
    IF get_bool(head, PKCS11_CKA_TRUSTED) /\ ~pkcs11_session_is_so(session)
    THEN PKCS11_CKR_KEY_FUNCTION_NOT_PERMITTED
    ELSE IF get_bool(head, PKCS11_CKA_TOKEN)
            /\ ~pkcs11_session_is_read_write(session)
    THEN PKCS11_CKR_SESSION_READ_ONLY
    ELSE PKCS11_CKR_OK

check_created_attrs_against_token(session, head) ==
    With(check_attrs_misc_integrity(head), LAMBDA rc :
        IF rc # PKCS11_CKR_OK THEN rc
        ELSE IF get_bool(head, PKCS11_CKA_TRUSTED)
                /\ ~pkcs11_session_is_so(session)
        THEN PKCS11_CKR_KEY_FUNCTION_NOT_PERMITTED
        ELSE IF get_bool(head, PKCS11_CKA_TOKEN)
                /\ ~pkcs11_session_is_read_write(session)
        THEN PKCS11_CKR_SESSION_READ_ONLY
        ELSE PKCS11_CKR_OK)

object_is_private(head) ==
    \/ get_class(head) = PKCS11_CKO_PRIVATE_KEY
    \/ get_bool(head, PKCS11_CKA_PRIVATE)

\* The attributes attribute_is_exportable() protects
PrivateKeyComponents ==
    { PKCS11_CKA_PRIVATE_EXPONENT, PKCS11_CKA_PRIME_1, PKCS11_CKA_PRIME_2,
      PKCS11_CKA_EXPONENT_1, PKCS11_CKA_EXPONENT_2, PKCS11_CKA_COEFFICIENT }

\* attribute_is_exportable() if it did not read SENSITIVE
attribute_is_exportable_if_extractable(req_attr, obj) ==
    IF req_attr.id \in PrivateKeyComponents
    THEN With(get_attribute(obj.attributes, PKCS11_CKA_EXTRACTABLE, 1),
              LAMBDA e : ~(e.rc # PKCS11_CKR_OK \/ e.val = PKCS11_FALSE))
    ELSE TRUE

\* attribute_is_exportable(): obj is the object, obj.attributes its list
attribute_is_exportable(req_attr, obj) ==
    IF req_attr.id \in PrivateKeyComponents
    THEN With(get_attribute(obj.attributes, PKCS11_CKA_EXTRACTABLE, 1),
              LAMBDA e :
                  IF e.rc # PKCS11_CKR_OK \/ e.val = PKCS11_FALSE THEN FALSE
                  ELSE With(get_attribute(obj.attributes,
                                          PKCS11_CKA_SENSITIVE, 1),
                            LAMBDA s :
                                ~(s.rc # PKCS11_CKR_OK
                                  \/ s.val = PKCS11_TRUE)))
    ELSE TRUE

-----------------------------------------------------------------------------
(* The token checks on every object and session: out is the object's
   attribute list *)

\* Sessions: public, user and security officer ones; a security officer
\* session is read-write
Sessions ==
    { [login |-> l, read_write |-> rw] :
        l \in { "public", "user" }, rw \in BOOLEAN }
    \cup { [login |-> "so", read_write |-> TRUE] }

\* A boolean attribute of an object: set, cleared, and missing when asked
BoolEntries(id, or_missing) ==
    { << Attr(id, 1, PKCS11_TRUE) >>, << Attr(id, 1, PKCS11_FALSE) >> }
    \cup (IF or_missing THEN { << >> } ELSE {})

CheckedObjects ==
    { << Attr(PKCS11_CKA_CLASS, 4, class) >> \o private \o sensitive
      \o extractable \o trusted \o token \o never \o always :
        class \in { PKCS11_CKO_DATA, PKCS11_CKO_SECRET_KEY,
                    PKCS11_CKO_PUBLIC_KEY, PKCS11_CKO_PRIVATE_KEY,
                    PKCS11_CKO_CERTIFICATE },
        private \in BoolEntries(PKCS11_CKA_PRIVATE, TRUE),
        sensitive \in BoolEntries(PKCS11_CKA_SENSITIVE, TRUE),
        extractable \in BoolEntries(PKCS11_CKA_EXTRACTABLE, TRUE),
        trusted \in BoolEntries(PKCS11_CKA_TRUSTED, FALSE),
        token \in BoolEntries(PKCS11_CKA_TOKEN, FALSE),
        never \in BoolEntries(PKCS11_CKA_NEVER_EXTRACTABLE, FALSE),
        always \in BoolEntries(PKCS11_CKA_ALWAYS_SENSITIVE, FALSE) }

\* Attributes a client asks the value of
RequestedAttributes ==
    PrivateKeyComponents \cup { PKCS11_CKA_VALUE, PKCS11_CKA_MODULUS }

InitToken ==
    /\ phase = "object"
    /\ template = << >>
    /\ function = "none"
    /\ parent = NoObject
    /\ temp = NoObject
    /\ out \in CheckedObjects
    /\ rv = PKCS11_CKR_OK
    /\ mechanism = PKCS11_UNDEFINED_ID
    /\ step = "none"
    /\ processing = NoProcessing
    /\ key = NoObject
    /\ trace = << >>
    /\ heap = 0
    /\ session_state \in Sessions
    /\ db = NoDatabase
    /\ dt = NoProbe

\* A call of check_access_attrs_against_token(session, out)
CheckAccess ==
    /\ phase = "object"
    /\ phase' = "access_checked"
    /\ rv' = check_access_attrs_against_token(session_state, out)
    /\ UNCHANGED <<template, function, parent, temp, out, mechanism, step,
                   processing, key, trace, heap, session_state, db, dt>>

\* A call of check_created_attrs_against_token(session, out)
CheckCreatedAgainstToken ==
    /\ phase = "object"
    /\ phase' = "token_checked"
    /\ rv' = check_created_attrs_against_token(session_state, out)
    /\ UNCHANGED <<template, function, parent, temp, out, mechanism, step,
                   processing, key, trace, heap, session_state, db, dt>>

\* A call of attribute_is_exportable(req_attr, obj): template holds the
\* requested attribute
AttributeIsExportable ==
    /\ phase = "object"
    /\ phase' = "export_checked"
    /\ \E id \in RequestedAttributes :
          /\ template' = << Attr(id, 0, 0) >>
          /\ rv' = attribute_is_exportable(Attr(id, 0, 0),
                                           [attributes |-> out])
    /\ UNCHANGED <<function, parent, temp, out, mechanism, step,
                   processing, key, trace, heap, session_state, db, dt>>

NextToken ==
    \/ CheckAccess
    \/ CheckCreatedAgainstToken
    \/ AttributeIsExportable

SpecToken == InitToken /\ [][NextToken]_vars

-----------------------------------------------------------------------------
(* The handle database (handle.c) *)

MaxPtrs == 8

HANDLE_DB_INITIAL_MAX_PTRS == 4

\* UINT32_MAX / 2
UINT32_MAX_HALF == 2147483647

\* The NULL pointer; the other pointers are positive
NULL == 0

\* guard_handle(). A uint32_t of 0x80000000 and above is written as its two's
\* complement; the masks are all ones or zero, mask_neg when the top bit of
\* handle is set and mask_ovf when the top bit of max_ptrs - handle is
guard_handle(db_, handle) ==
    With(handle < 0, LAMBDA mask_neg :
        With(IF mask_neg THEN FALSE ELSE db_.max_ptrs - handle < 0,
             LAMBDA mask_ovf :
                 IF mask_ovf \/ mask_neg THEN 0 ELSE handle))

\* sanitize_array_signed_index_nospec(), from its description: index, or 0
\* if index is negative or exceeds max
sanitize_array_signed_index_nospec(index, max) ==
    IF index < 0 \/ index > max THEN 0 ELSE index

\* (long int)handle where long int has 32 or 64 bits: with 32 bits a handle
\* of 0x80000000 and above is negative, with 64 bits it is a value above
\* every max_ptrs, written UINT32_MAX_HALF
long_int(handle, bits) ==
    IF bits = 64 /\ handle < 0 THEN UINT32_MAX_HALF ELSE handle

\* The index handle_put() and handle_lookup() read: guard_handle() in one
\* version of the file, sanitize_array_signed_index_nospec() in the other
handle_index(db_, handle) ==
    IF db_.build = "guard_handle" THEN guard_handle(db_, handle)
    ELSE sanitize_array_signed_index_nospec(
             long_int(handle, IF db_.build = "nospec_ilp32" THEN 32 ELSE 64),
             db_.max_ptrs)

\* db->ptrs[index] is inside the allocated array
InsidePtrs(db_, index) == index \in 0..(db_.max_ptrs - 1)

\* handle_get() if it searched a free location from index 0
handle_get_from_zero(db_, ptr, realloc_ok) ==
    IF ptr = NULL THEN [db |-> db_, handle |-> 0]
    ELSE IF \E n \in 0..(db_.max_ptrs - 1) : db_.ptrs[n] = NULL
    THEN With(CHOOSE n \in 0..(db_.max_ptrs - 1) :
                  /\ db_.ptrs[n] = NULL
                  /\ \A k \in 0..(n - 1) : db_.ptrs[k] # NULL,
              LAMBDA n : [db |-> [db_ EXCEPT !.ptrs[n] = ptr], handle |-> n])
    ELSE With(IF db_.max_ptrs # 0 THEN db_.max_ptrs * 2
              ELSE HANDLE_DB_INITIAL_MAX_PTRS,
              LAMBDA new_max_ptrs :
        IF new_max_ptrs > UINT32_MAX_HALF \/ ~realloc_ok
        THEN [db |-> db_, handle |-> 0]
        ELSE With(IF db_.max_ptrs > 1 THEN db_.max_ptrs ELSE 1, LAMBDA n :
            [db |-> [db_ EXCEPT
                       !.ptrs = [i \in 0..(new_max_ptrs - 1) |->
                                    IF i = n THEN ptr
                                    ELSE IF i < db_.max_ptrs THEN db_.ptrs[i]
                                    ELSE NULL],
                       !.max_ptrs = new_max_ptrs],
             handle |-> n]))

\* handle_get(): realloc_ok tells whether TEE_Realloc() succeeds
handle_get(db_, ptr, realloc_ok) ==
    IF ptr = NULL THEN [db |-> db_, handle |-> 0]
    ELSE IF \E n \in 1..(db_.max_ptrs - 1) : db_.ptrs[n] = NULL
    THEN With(CHOOSE n \in 1..(db_.max_ptrs - 1) :
                  /\ db_.ptrs[n] = NULL
                  /\ \A k \in 1..(n - 1) : db_.ptrs[k] # NULL,
              LAMBDA n : [db |-> [db_ EXCEPT !.ptrs[n] = ptr], handle |-> n])
    ELSE With(IF db_.max_ptrs # 0 THEN db_.max_ptrs * 2
              ELSE HANDLE_DB_INITIAL_MAX_PTRS,
              LAMBDA new_max_ptrs :
        IF new_max_ptrs > UINT32_MAX_HALF \/ ~realloc_ok
        THEN [db |-> db_, handle |-> 0]
        ELSE With(IF db_.max_ptrs > 1 THEN db_.max_ptrs ELSE 1, LAMBDA n :
            [db |-> [db_ EXCEPT
                       !.ptrs = [i \in 0..(new_max_ptrs - 1) |->
                                    IF i = n THEN ptr
                                    ELSE IF i < db_.max_ptrs THEN db_.ptrs[i]
                                    ELSE NULL],
                       !.max_ptrs = new_max_ptrs],
             handle |-> n]))

\* handle_put() on an index inside the array
handle_put(db_, handle) ==
    With(handle_index(db_, handle), LAMBDA index :
        [db |-> [db_ EXCEPT !.ptrs[index] = NULL], p |-> db_.ptrs[index]])

\* handle_lookup() on an index inside the array
handle_lookup(db_, handle) == db_.ptrs[handle_index(db_, handle)]

-----------------------------------------------------------------------------
(* Calls on one handle database *)

\* The pointers registered
Pointers == { 1, 2 }

\* The handle values of the calls, 0x80000000, 0x80000004 and 0xffffffff
\* among them
HandleValues == 0..(MaxPtrs + 1) \cup { -2147483647 - 1, -2147483644, -1 }

NoCall == [op |-> "none"]

\* The database as HANDLE_DB_INITIALIZER and handle_db_destroy() leave it;
\* handed records, for each handle handed out, the pointer registered under
\* it, NULL once it is put
InitHandles ==
    /\ phase = "handles"
    /\ template = << >>
    /\ function = "none"
    /\ parent = NoObject
    /\ temp = NoObject
    /\ out = NoObject
    /\ rv = NULL
    /\ mechanism = PKCS11_UNDEFINED_ID
    /\ step = "none"
    /\ processing = NoProcessing
    /\ key = NoObject
    /\ trace = << >>
    /\ heap = 0
    /\ session_state = NoSession
    /\ \E build \in { "guard_handle", "nospec_ilp32", "nospec_lp64" } :
          db = [state |-> "db", build |-> build, ptrs |-> << >>,
                max_ptrs |-> 0, handed |-> << >>, call |-> NoCall]
    /\ dt = NoProbe

\* handed once handle is registered with ptr
Hand(handed, handle, ptr) ==
    [h \in DOMAIN handed \cup { handle } |->
        IF h = handle THEN ptr ELSE handed[h]]

\* A call of handle_get(db, ptr); the array grows up to MaxPtrs
HandleGet ==
    /\ phase = "handles"
    /\ db.state = "db"
    /\ phase' = "handle_returned"
    /\ \E ptr \in Pointers \cup { NULL }, realloc_ok \in BOOLEAN :
          /\ realloc_ok => (db.max_ptrs * 2 <= MaxPtrs)
          /\ With(handle_get(db, ptr, realloc_ok), LAMBDA r :
                 /\ rv' = r.handle
                 /\ db' = [r.db EXCEPT
                             !.handed = IF r.handle # 0
                                        THEN Hand(db.handed, r.handle, ptr)
                                        ELSE db.handed,
                             !.call = [op |-> "handle_get", ptr |-> ptr]])
    /\ UNCHANGED <<template, function, parent, temp, out, mechanism,
                   step, processing, key, trace, heap, session_state, dt>>

\* A call of handle_put(db, handle). An index outside the array is an access
\* to other memory: the call faults, or the write lands next to the array and
\* the value read there is any
HandlePut ==
    /\ phase = "handles"
    /\ db.state = "db"
    /\ phase' = "handle_returned"
    /\ \E handle \in HandleValues :
          With(handle_index(db, handle), LAMBDA index :
              IF InsidePtrs(db, index)
              THEN With(handle_put(db, handle), LAMBDA r :
                       /\ rv' = r.p
                       /\ db' = [r.db EXCEPT
                                   !.handed = IF handle \in DOMAIN db.handed
                                              THEN Hand(db.handed, handle,
                                                        NULL)
                                              ELSE db.handed,
                                   !.call = [op |-> "handle_put",
                                             handle |-> handle,
                                             index |-> index,
                                             max_ptrs |-> db.max_ptrs,
                                             outside |-> FALSE]])
              ELSE \/ /\ rv' = NULL
                      /\ db' = [db EXCEPT !.state = "fault",
                                   !.call = [op |-> "handle_put",
                                             handle |-> handle,
                                             index |-> index,
                                             max_ptrs |-> db.max_ptrs,
                                             outside |-> TRUE]]
                   \/ /\ db.max_ptrs > 0
                      /\ rv' \in Pointers \cup { NULL }
                      /\ db' = [db EXCEPT !.state = "damaged",
                                   !.call = [op |-> "handle_put",
                                             handle |-> handle,
                                             index |-> index,
                                             max_ptrs |-> db.max_ptrs,
                                             outside |-> TRUE]])
    /\ UNCHANGED <<template, function, parent, temp, out, mechanism,
                   step, processing, key, trace, heap, session_state, dt>>

\* A call of handle_lookup(db, handle). An index outside the array is a read
\* of other memory: the call faults or returns any value
HandleLookup ==
    /\ phase = "handles"
    /\ db.state = "db"
    /\ phase' = "handle_returned"
    /\ \E handle \in HandleValues :
          With(handle_index(db, handle), LAMBDA index :
              IF InsidePtrs(db, index)
              THEN /\ rv' = handle_lookup(db, handle)
                   /\ db' = [db EXCEPT !.call = [op |-> "handle_lookup",
                                                 handle |-> handle,
                                                 index |-> index,
                                                 max_ptrs |-> db.max_ptrs,
                                                 outside |-> FALSE]]
              ELSE \/ /\ rv' = NULL
                      /\ db' = [db EXCEPT !.state = "fault",
                                   !.call = [op |-> "handle_lookup",
                                             handle |-> handle,
                                             index |-> index,
                                             max_ptrs |-> db.max_ptrs,
                                             outside |-> TRUE]]
                   \/ /\ db.max_ptrs > 0
                      /\ rv' \in Pointers \cup { NULL }
                      /\ db' = [db EXCEPT !.call = [op |-> "handle_lookup",
                                                    handle |-> handle,
                                                    index |-> index,
                                                    max_ptrs |-> db.max_ptrs,
                                                    outside |-> TRUE]])
    /\ UNCHANGED <<template, function, parent, temp, out, mechanism,
                   step, processing, key, trace, heap, session_state, dt>>

\* The caller takes the result; a call that faulted does not return
HandleReturn ==
    /\ phase = "handle_returned"
    /\ db.state = "db"
    /\ phase' = "handles"
    /\ rv' = NULL
    /\ db' = [db EXCEPT !.call = NoCall]
    /\ UNCHANGED <<template, function, parent, temp, out, mechanism,
                   step, processing, key, trace, heap, session_state, dt>>

NextHandles ==
    \/ HandleGet
    \/ HandlePut
    \/ HandleLookup
    \/ HandleReturn

SpecHandles == InitHandles /\ [][NextHandles]_vars

-----------------------------------------------------------------------------
(* Object creation on templates that name the attributes the token sets, and
   from parents of either sensitivity *)

MaxSetLen == 3

\* The attributes create_attributes_from_template() sets by itself
TokenSetAttributes ==
    { PKCS11_CKA_LOCAL, PKCS11_CKA_ALWAYS_SENSITIVE,
      PKCS11_CKA_NEVER_EXTRACTABLE }

\* The boolean entries a client adds to its template
SetEntries ==
    { Attr(PKCS11_CKA_SENSITIVE, 1, PKCS11_TRUE),
      Attr(PKCS11_CKA_SENSITIVE, 1, PKCS11_FALSE),
      Attr(PKCS11_CKA_EXTRACTABLE, 1, PKCS11_TRUE),
      Attr(PKCS11_CKA_LOCAL, 1, PKCS11_TRUE),
      Attr(PKCS11_CKA_LOCAL, 1, PKCS11_FALSE),
      Attr(PKCS11_CKA_ALWAYS_SENSITIVE, 1, PKCS11_TRUE),
      Attr(PKCS11_CKA_NEVER_EXTRACTABLE, 1, PKCS11_TRUE) }

\* The class and type a template starts with
SetHeads ==
    { AesKeyTemplate,
      << Attr(PKCS11_CKA_CLASS, 4, PKCS11_CKO_PRIVATE_KEY),
         Attr(PKCS11_CKA_KEY_TYPE, 4, PKCS11_CKK_RSA) >>,
      << Attr(PKCS11_CKA_CLASS, 4, PKCS11_CKO_DATA) >> }

SetTemplates ==
    { h \o t : h \in SetHeads,
               t \in UNION { [1..n -> SetEntries] : n \in 0..MaxSetLen } }

\* The template without its entries for the attributes the token sets
WithoutTokenSet(template_) ==
    SelectSeq(template_, LAMBDA e : e.id \notin TokenSetAttributes)

\* AES keys of the token a copy or a derivation starts from: sensitive or
\* not, local or not
SetParents ==
    { AesKeyTemplate
      \o << Attr(PKCS11_CKA_SENSITIVE, 1, BoolByte(s)),
            Attr(PKCS11_CKA_EXTRACTABLE, 1, BoolByte(~s)),
            Attr(PKCS11_CKA_LOCAL, 1, BoolByte(l)),
            Attr(PKCS11_CKA_ALWAYS_SENSITIVE, 1, BoolByte(s /\ l)),
            Attr(PKCS11_CKA_NEVER_EXTRACTABLE, 1, BoolByte(s /\ l)) >> :
        s, l \in BOOLEAN }

InitSet ==
    /\ phase = "template"
    /\ template \in SetTemplates
    /\ function = "none"
    /\ parent = NoObject
    /\ temp = NoObject
    /\ out = NoObject
    /\ rv = PKCS11_CKR_OK
    /\ mechanism = PKCS11_UNDEFINED_ID
    /\ step = "none"
    /\ processing = NoProcessing
    /\ key = NoObject
    /\ trace = << >>
    /\ heap = 0
    /\ session_state = NoSession
    /\ db = NoDatabase
    /\ dt = NoProbe

CopyKey ==
    \E obj \in SetParents, too_short \in BOOLEAN :
        CreateObject(PKCS11_FUNCTION_COPY, obj, too_short)

DeriveFromKey ==
    \E obj \in SetParents, too_short \in BOOLEAN :
        CreateObject(PKCS11_FUNCTION_DERIVE, obj, too_short)

NextSet ==
    \/ ImportObject
    \/ GenerateKey
    \/ GenerateKeyPair
    \/ CopyKey
    \/ DeriveFromKey

SpecSet == InitSet /\ [][NextSet]_vars

-----------------------------------------------------------------------------
(* The driver probe lists (dt_driver.c) *)

MaxElts == 4

MaxRequests == 1

TEE_SUCCESS == "TEE_SUCCESS"
TEE_ERROR_BUSY == "TEE_ERROR_BUSY"
TEE_ERROR_GENERIC == "TEE_ERROR_GENERIC"
TEE_ERROR_OUT_OF_MEMORY == "TEE_ERROR_OUT_OF_MEMORY"

\* struct dt_driver_probe: the node and the type of its driver; deferrals,
\* which only the trace messages read, is left out
ProbeElement(nodeoffset, type) == [nodeoffset |-> nodeoffset, type |-> type]

\* The heap has room for one more element: elements are never freed, and
\* the one being probed is in no list.  calloc() and malloc() fail when it
\* has none; an earlier failure leaves the lists as they are, as a request
\* that is not made does
HeapHasRoom(dt_) == Len(dt_.probe) + Len(dt_.ready) + 1 < MaxElts

add_to_ready_list(dt_, elt) == [dt_ EXCEPT !.ready = << elt >> \o @]

add_to_probe_list(dt_, elt) == [dt_ EXCEPT !.probe = Append(@, elt)]

\* remove_from_probe_list() of the element at position i
remove_from_probe_list(dt_, i) ==
    [dt_ EXCEPT !.probe = SubSeq(@, 1, i - 1) \o SubSeq(@, i + 1, Len(@))]

is_already_in_probe_list(dt_, candidate) ==
    \E i \in 1..Len(dt_.probe) :
        /\ dt_.probe[i].nodeoffset = candidate.nodeoffset
        /\ dt_.probe[i].type = candidate.type

is_already_in_ready_list(dt_, candidate) ==
    \E i \in 1..Len(dt_.ready) :
        /\ dt_.ready[i].nodeoffset = candidate.nodeoffset
        /\ dt_.ready[i].type = candidate.type

\* probe_driver_node() once elt->dt_drv->probe() has returned res
probe_driver_node(dt_, elt, res) ==
    CASE res = TEE_SUCCESS ->
            [res |-> res, dt |-> add_to_ready_list(dt_, elt)]
      [] res = TEE_ERROR_BUSY ->
            [res |-> res, dt |-> add_to_probe_list(dt_, elt)]
      [] OTHER ->
            [res |-> res, dt |-> [dt_ EXCEPT !.state = "panic"]]

\* alloc_elt_and_probe(), the probe of a device a driver asks for: res is
\* the result of the driver's probe
alloc_elt_and_probe(dt_, elt, res) ==
    IF ~HeapHasRoom(dt_)
    THEN [res |-> TEE_ERROR_OUT_OF_MEMORY, dt |-> dt_]
    ELSE probe_driver_node(dt_, elt, res)

add_node_to_probe(dt_, elt) ==
    IF is_already_in_probe_list(dt_, elt)
    THEN [res |-> TEE_SUCCESS, dt |-> dt_]
    ELSE IF is_already_in_ready_list(dt_, elt)
    THEN [res |-> TEE_SUCCESS, dt |-> dt_]
    ELSE IF ~HeapHasRoom(dt_)
    THEN [res |-> TEE_ERROR_OUT_OF_MEMORY, dt |-> dt_]
    ELSE [res |-> TEE_SUCCESS,
          dt |-> add_to_probe_list(
                     [dt_ EXCEPT !.added_count = @ + 1], elt)]

\* What a driver's probe does to the lists before it returns: it adds nodes
\* to probe or has a device probed at once
RECURSIVE probe_requests(_, _)
probe_requests(dt_, requests) ==
    IF requests = << >> \/ dt_.state = "panic" THEN dt_
    ELSE With(Head(requests), LAMBDA r :
            probe_requests(
                IF r.call = "add_node_to_probe"
                THEN add_node_to_probe(dt_, r.elt).dt
                ELSE alloc_elt_and_probe(dt_, r.elt, r.res).dt,
                Tail(requests)))

\* The test that ends process_probe_list() with a panic, if it never held
round_is_last_never(all_deferred, added_count, added_count_now) == FALSE

\* The test that ends process_probe_list() with a panic
round_is_last(all_deferred, added_count, added_count_now) ==
    all_deferred /\ added_count = added_count_now

-----------------------------------------------------------------------------
(* process_probe_list() on the probe list the parsing of the device tree   *)
(* left                                                                    *)

\* The nodes and the drivers that match them
ProbeElements ==
    { ProbeElement(1, "DT_DRIVER_NOTYPE"), ProbeElement(2, "DT_DRIVER_CLK"),
      ProbeElement(2, "DT_DRIVER_UART") }

\* What a driver's probe asks for
ProbeRequests ==
    { [call |-> "add_node_to_probe", elt |-> e, res |-> TEE_SUCCESS] :
        e \in ProbeElements }
    \cup { [call |-> "alloc_elt_and_probe", elt |-> e, res |-> res] :
             e \in ProbeElements,
             res \in { TEE_SUCCESS, TEE_ERROR_BUSY, TEE_ERROR_GENERIC } }

\* The locals of process_probe_list()
RoundLocals(added_count, all_deferred, one_deferred, todo, ready_count) ==
    [added_count |-> added_count, all_deferred |-> all_deferred,
     one_deferred |-> one_deferred, todo |-> todo,
     ready_count |-> ready_count]

\* parse_node() has added each node once; process_probe_list() is at the
\* top of its loop
InitProbe ==
    /\ phase = "probe"
    /\ template = << >>
    /\ function = "none"
    /\ parent = NoObject
    /\ temp = NoObject
    /\ out = NoObject
    /\ rv = TEE_ERROR_GENERIC
    /\ mechanism = PKCS11_UNDEFINED_ID
    /\ step = "none"
    /\ processing = NoProcessing
    /\ key = NoObject
    /\ trace = << >>
    /\ heap = 0
    /\ session_state = NoSession
    /\ db = NoDatabase
    /\ \E n \in 0..Cardinality(ProbeElements) :
          \E list \in [1..n -> ProbeElements] :
              /\ \A i, j \in 1..n : list[i] = list[j] => i = j
              /\ dt = [state |-> "loop", probe |-> list, ready |-> << >>,
                       added_count |-> n,
                       round |-> RoundLocals(0, TRUE, FALSE, 0, 0)]

\* The top of the loop: return when the probe list is empty, else start a
\* round from the tail of the list; ready_count records the length of the
\* ready list
BeginRound ==
    /\ dt.state = "loop"
    /\ IF dt.probe = << >>
       THEN /\ rv' = TEE_SUCCESS
            /\ dt' = [dt EXCEPT !.state = "returned"]
       ELSE /\ rv' = rv
            /\ dt' = [dt EXCEPT
                        !.state = "round",
                        !.round = RoundLocals(dt.added_count, TRUE, FALSE,
                                              Len(dt.probe), Len(dt.ready))]
    /\ UNCHANGED <<phase, template, function, parent, temp, out, mechanism,
                   step, processing, key, trace, heap, session_state, db>>

\* One turn of TAILQ_FOREACH_REVERSE_SAFE: the element is removed from the
\* list and probed; its driver's probe makes its requests and returns res
ProbeNext ==
    /\ dt.state = "round"
    /\ dt.round.todo > 0
    /\ \E n \in 0..MaxRequests :
          \E requests \in [1..n -> ProbeRequests],
             res \in { TEE_SUCCESS, TEE_ERROR_BUSY, TEE_ERROR_GENERIC } :
              With(probe_requests(
                       remove_from_probe_list(dt, dt.round.todo), requests),
                   LAMBDA d :
                      IF d.state = "panic" THEN dt' = d
                      ELSE With(probe_driver_node(d, dt.probe[dt.round.todo],
                                                  res).dt,
                                LAMBDA p :
                          IF p.state = "panic" THEN dt' = p
                          ELSE
                          dt' = [p EXCEPT
                                   !.round.todo = @ - 1,
                                   !.round.all_deferred =
                                       IF res = TEE_SUCCESS THEN FALSE
                                       ELSE @,
                                   !.round.one_deferred =
                                       IF res = TEE_ERROR_BUSY THEN TRUE
                                       ELSE @]))
    /\ UNCHANGED <<phase, template, function, parent, temp, out, rv,
                   mechanism, step, processing, key, trace, heap,
                   session_state, db>>

\* The end of a round: panic on unresolved dependencies or loop again
EndRound ==
    /\ dt.state = "round"
    /\ dt.round.todo = 0
    /\ dt' = [dt EXCEPT
                !.state = IF round_is_last(dt.round.all_deferred,
                                           dt.round.added_count,
                                           dt.added_count)
                          THEN "panic" ELSE "loop"]
    /\ UNCHANGED <<phase, template, function, parent, temp, out, rv,
                   mechanism, step, processing, key, trace, heap,
                   session_state, db>>

NextProbe ==
    \/ BeginRound
    \/ ProbeNext
    \/ EndRound

SpecProbe == InitProbe /\ [][NextProbe]_vars

\* Every probe callback returns and process_probe_list() runs on
SpecProbeFair == SpecProbe /\ WF_vars(NextProbe)

-----------------------------------------------------------------------------
(* Properties of the mechanism check *)

\* The check of an INIT step has returned
InitChecked == phase = "checked" /\ step = PKCS11_FUNC_STEP_INIT

\* The functions that need no mechanism
MechanismFreeFunctions ==
    { PKCS11_FUNCTION_IMPORT, PKCS11_FUNCTION_COPY, PKCS11_FUNCTION_MODIFY,
      PKCS11_FUNCTION_DESTROY }

\* The flags PKCS#11 allows for the session's mechanism, 0 for an id that is
\* not in the PKCS#11 table
allowed_functions ==
    With(FirstIndex(pkcs11_modes, mechanism), LAMBDA n :
        IF n = 0 THEN 0 ELSE pkcs11_modes[n].flags)

\* The flags the token exposes for the session's mechanism, 0 for an id that
\* is not in the token's table
token_supported_functions ==
    With(FirstIndex(token_mechanism, mechanism), LAMBDA n :
        IF n = 0 THEN 0 ELSE token_mechanism[n].flags)

\* C7, as stated: at step INIT the check returns OK for IMPORT, COPY, MODIFY
\* and DESTROY whatever the mechanism; for any other function it returns OK
\* if the flags PKCS#11 allows for the mechanism contain the function's flag,
\* and KEY_FUNCTION_NOT_PERMITTED otherwise.
C7_InitByAllowedFunctions ==
    InitChecked =>
        rv = IF function \in MechanismFreeFunctions THEN PKCS11_CKR_OK
             ELSE IF BitAnd(allowed_functions, pkcs11_func2ckfm(function)) # 0
             THEN PKCS11_CKR_OK
             ELSE PKCS11_CKR_KEY_FUNCTION_NOT_PERMITTED

\* C7, amended: at step INIT the check returns OK for IMPORT, COPY, MODIFY
\* and DESTROY whatever the mechanism; for any other function it returns OK
\* if the flags the token exposes for the mechanism (none for a mechanism
\* the token's table does not list) contain the function's flag, and
\* KEY_FUNCTION_NOT_PERMITTED otherwise; for the undefined id, which the
\* token's table lists but the PKCS#11 table does not, a build with
\* assertions panics instead of returning KEY_FUNCTION_NOT_PERMITTED.
C7_InitByTokenSupportedFunctions ==
    InitChecked =>
        IF function \in MechanismFreeFunctions THEN rv = PKCS11_CKR_OK
        ELSE IF mechanism = PKCS11_CKM_UNDEFINED_ID
        THEN rv \in { PANIC, PKCS11_CKR_KEY_FUNCTION_NOT_PERMITTED }
        ELSE rv = IF BitAnd(token_supported_functions,
                            pkcs11_func2ckfm(function)) # 0
                  THEN PKCS11_CKR_OK
                  ELSE PKCS11_CKR_KEY_FUNCTION_NOT_PERMITTED

\* PKCS#11 allows wrapping with AES_ECB, the token does not expose it
C7_Witness ==
    /\ InitChecked
    /\ mechanism = PKCS11_CKM_AES_ECB
    /\ function = PKCS11_FUNCTION_WRAP
    /\ BitAnd(allowed_functions, PKCS11_CKFM_WRAP) # 0
    /\ rv = PKCS11_CKR_KEY_FUNCTION_NOT_PERMITTED

\* C8: for a processing that uses a one-shot-only mechanism and a key that
\* needs no re-authentication, in the step sequence INIT, UPDATE, UPDATE the
\* check of the first UPDATE returns OK and the check of the second UPDATE
\* returns KEY_FUNCTION_NOT_PERMITTED.
C8_OneShotSecondUpdate ==
    (/\ Len(trace) >= 2
     /\ trace[1][1] = PKCS11_FUNC_STEP_INIT
     /\ trace[2][1] = PKCS11_FUNC_STEP_UPDATE
     /\ mechanism_is_one_shot_only(mechanism)
     /\ ~get_bool(key, PKCS11_CKA_ALWAYS_AUTHENTICATE))
    => /\ trace[2][2] = PKCS11_CKR_OK
       /\ (Len(trace) >= 3 /\ trace[3][1] = PKCS11_FUNC_STEP_UPDATE)
          => trace[3][2] = PKCS11_CKR_KEY_FUNCTION_NOT_PERMITTED

\* The second UPDATE of a signature with RSA_PKCS is refused
C8_Witness ==
    /\ mechanism = PKCS11_CKM_RSA_PKCS
    /\ function = PKCS11_FUNCTION_SIGN
    /\ ~get_bool(key, PKCS11_CKA_ALWAYS_AUTHENTICATE)
    /\ trace = << <<PKCS11_FUNC_STEP_INIT, PKCS11_CKR_OK>>,
                  <<PKCS11_FUNC_STEP_UPDATE, PKCS11_CKR_OK>>,
                  <<PKCS11_FUNC_STEP_UPDATE,
                    PKCS11_CKR_KEY_FUNCTION_NOT_PERMITTED>> >>

\* C9: at steps ONESHOT, UPDATE and FINAL, whenever the session's processing
\* is marked always_authen and the user has not logged in again since INIT,
\* the check returns USER_NOT_LOGGED_IN, whatever the one-shot check would
\* say; at step FINAL it returns OK in every other case.
C9_ReloginBeforeOneShot ==
    (/\ phase = "checked"
     /\ step \in { PKCS11_FUNC_STEP_ONESHOT, PKCS11_FUNC_STEP_UPDATE,
                   PKCS11_FUNC_STEP_FINAL })
    => IF processing.always_authen /\ ~processing.relogged
       THEN rv = PKCS11_CKR_USER_NOT_LOGGED_IN
       ELSE step = PKCS11_FUNC_STEP_FINAL => rv = PKCS11_CKR_OK

\* An updated processing of a one-shot-only mechanism is asked to log in
C9_Witness ==
    /\ phase = "checked"
    /\ step = PKCS11_FUNC_STEP_UPDATE
    /\ processing.always_authen
    /\ ~processing.relogged
    /\ processing.updated
    /\ mechanism_is_one_shot_only(mechanism)
    /\ rv = PKCS11_CKR_USER_NOT_LOGGED_IN


-----------------------------------------------------------------------------
(* Properties of the parent key check *)

ParentChecked == phase = "parent_checked"

\* (a) the key has the boolean flag that matches the function set
FunctionFlagSet ==
    CASE function = PKCS11_FUNCTION_ENCRYPT ->
            get_bool(key, PKCS11_CKA_ENCRYPT)
      [] function = PKCS11_FUNCTION_DECRYPT ->
            get_bool(key, PKCS11_CKA_DECRYPT)
      [] function = PKCS11_FUNCTION_SIGN -> get_bool(key, PKCS11_CKA_SIGN)
      [] function = PKCS11_FUNCTION_VERIFY -> get_bool(key, PKCS11_CKA_VERIFY)
      [] function = PKCS11_FUNCTION_WRAP -> get_bool(key, PKCS11_CKA_WRAP)
      [] function = PKCS11_FUNCTION_UNWRAP -> get_bool(key, PKCS11_CKA_UNWRAP)
      [] function = PKCS11_FUNCTION_DERIVE -> get_bool(key, PKCS11_CKA_DERIVE)
      [] OTHER -> TRUE

\* The mechanisms of each family, by their names
AesMechanisms ==
    { PKCS11_CKM_AES_KEY_GEN, PKCS11_CKM_AES_ECB, PKCS11_CKM_AES_CBC,
      PKCS11_CKM_AES_CBC_PAD, PKCS11_CKM_AES_CTR, PKCS11_CKM_AES_GCM,
      PKCS11_CKM_AES_CCM, PKCS11_CKM_AES_CTS, PKCS11_CKM_AES_CMAC,
      PKCS11_CKM_AES_CMAC_GENERAL, PKCS11_CKM_AES_XCBC_MAC,
      PKCS11_CKM_AES_GMAC, PKCS11_CKM_AES_ECB_ENCRYPT_DATA,
      PKCS11_CKM_AES_CBC_ENCRYPT_DATA, PKCS11_CKM_AES_KEY_WRAP }

HmacMechanisms ==
    { PKCS11_CKM_MD5_HMAC, PKCS11_CKM_SHA_1_HMAC, PKCS11_CKM_SHA224_HMAC,
      PKCS11_CKM_SHA256_HMAC, PKCS11_CKM_SHA384_HMAC,
      PKCS11_CKM_SHA512_HMAC }

EcMechanisms ==
    { PKCS11_CKM_EC_KEY_PAIR_GEN, PKCS11_CKM_ECDSA, PKCS11_CKM_ECDSA_SHA1,
      PKCS11_CKM_ECDSA_SHA224, PKCS11_CKM_ECDSA_SHA256,
      PKCS11_CKM_ECDSA_SHA384, PKCS11_CKM_ECDSA_SHA512,
      PKCS11_CKM_ECDH1_DERIVE, PKCS11_CKM_ECDH1_COFACTOR_DERIVE,
      PKCS11_CKM_ECMQV_DERIVE, PKCS11_CKM_ECDH_AES_KEY_WRAP }

RsaMechanisms ==
    { PKCS11_CKM_RSA_PKCS_KEY_PAIR_GEN, PKCS11_CKM_RSA_PKCS,
      PKCS11_CKM_RSA_9796, PKCS11_CKM_RSA_X_509, PKCS11_CKM_SHA1_RSA_PKCS,
      PKCS11_CKM_RSA_PKCS_OAEP, PKCS11_CKM_RSA_PKCS_PSS,
      PKCS11_CKM_SHA1_RSA_PKCS_PSS, PKCS11_CKM_SHA256_RSA_PKCS,
      PKCS11_CKM_SHA384_RSA_PKCS, PKCS11_CKM_SHA512_RSA_PKCS,
      PKCS11_CKM_SHA256_RSA_PKCS_PSS, PKCS11_CKM_SHA384_RSA_PKCS_PSS,
      PKCS11_CKM_SHA512_RSA_PKCS_PSS, PKCS11_CKM_SHA224_RSA_PKCS,
      PKCS11_CKM_SHA224_RSA_PKCS_PSS, PKCS11_CKM_RSA_AES_KEY_WRAP }

\* The mechanisms of the four families that the check does not list
UnlistedMechanisms ==
    { PKCS11_CKM_AES_KEY_GEN, PKCS11_CKM_AES_GMAC,
      PKCS11_CKM_AES_ECB_ENCRYPT_DATA, PKCS11_CKM_AES_CBC_ENCRYPT_DATA,
      PKCS11_CKM_AES_KEY_WRAP, PKCS11_CKM_EC_KEY_PAIR_GEN,
      PKCS11_CKM_RSA_PKCS_KEY_PAIR_GEN, PKCS11_CKM_RSA_PKCS_PSS }

\* The key type of the keys made for an HMAC mechanism
HmacKeyType ==
    CASE mechanism = PKCS11_CKM_MD5_HMAC -> PKCS11_CKK_MD5_HMAC
      [] mechanism = PKCS11_CKM_SHA_1_HMAC -> PKCS11_CKK_SHA_1_HMAC
      [] mechanism = PKCS11_CKM_SHA224_HMAC -> PKCS11_CKK_SHA224_HMAC
      [] mechanism = PKCS11_CKM_SHA256_HMAC -> PKCS11_CKK_SHA256_HMAC
      [] mechanism = PKCS11_CKM_SHA384_HMAC -> PKCS11_CKK_SHA384_HMAC
      [] mechanism = PKCS11_CKM_SHA512_HMAC -> PKCS11_CKK_SHA512_HMAC
      [] OTHER -> PKCS11_CKK_UNDEFINED_ID

\* (b) the key matches the family of the session's mechanism, among families
KeyMatchesFamily(aes, hmac, ec, rsa) ==
    CASE mechanism \in aes ->
            /\ get_class(key) = PKCS11_CKO_SECRET_KEY
            /\ get_key_type(key) = PKCS11_CKK_AES
      [] mechanism \in hmac ->
            /\ get_class(key) = PKCS11_CKO_SECRET_KEY
            /\ get_key_type(key) \in { HmacKeyType, PKCS11_CKK_GENERIC_SECRET }
      [] mechanism \in ec ->
            /\ get_class(key) \in { PKCS11_CKO_PUBLIC_KEY,
                                    PKCS11_CKO_PRIVATE_KEY }
            /\ get_key_type(key) = PKCS11_CKK_EC
      [] mechanism \in rsa ->
            /\ get_class(key) \in { PKCS11_CKO_PUBLIC_KEY,
                                    PKCS11_CKO_PRIVATE_KEY }
            /\ get_key_type(key) = PKCS11_CKK_RSA
      [] OTHER -> FALSE

\* (c) the mechanism is one of the key's ALLOWED_MECHANISMS, if it has any
MechanismAllowed ==
    \A i \in 1..Len(key) :
        key[i].id = PKCS11_CKA_ALLOWED_MECHANISMS
        => \E n \in 1..Len(AllowedLists[key[i].val]) :
               AllowedLists[key[i].val][n] = mechanism

-----------------------------------------------------------------------------
(* Properties of the created object check *)

CreatedChecked == phase = "created_checked"

\* The derive mechanisms: those PKCS#11 allows to derive, and DH_PKCS_DERIVE
DeriveMechanisms ==
    { m \in Mechanisms :
        \E n \in 1..Len(pkcs11_modes) :
            /\ pkcs11_modes[n].id = m
            /\ BitAnd(pkcs11_modes[n].flags, PKCS11_CKFM_DERIVE) # 0 }
    \cup { PKCS11_CKM_DH_PKCS_DERIVE }

\* C11: for every derive mechanism, the created object check returns
\* TEMPLATE_INCONSISTENT when the new object's class is not SECRET_KEY, and
\* OK when the new object is a SECRET_KEY with LOCAL false.
C11_DeriveCreatesSecretKey ==
    (CreatedChecked /\ mechanism \in DeriveMechanisms)
    => /\ get_class(out) # PKCS11_CKO_SECRET_KEY
          => rv = PKCS11_CKR_TEMPLATE_INCONSISTENT
       /\ (/\ get_class(out) = PKCS11_CKO_SECRET_KEY
           /\ Count(out, PKCS11_CKA_LOCAL) = 1
           /\ ~get_bool(out, PKCS11_CKA_LOCAL))
          => rv = PKCS11_CKR_OK


\* C12: at step INIT the mechanism check is a total function of the
\* mechanism id: for every id a client supplies it returns OK or
\* KEY_FUNCTION_NOT_PERMITTED, it fails no assertion and does not panic.
C12_InitTotal ==
    InitChecked
    => rv \in { PKCS11_CKR_OK, PKCS11_CKR_KEY_FUNCTION_NOT_PERMITTED }

-----------------------------------------------------------------------------
(* Properties of the created object size check *)

SizeChecked == phase = "sized" /\ out # NoObject

\* C13: check_created_attrs() on an object the builder built returns OK or a
\* Cryptoki error, never the internal PKCS11_RV_NOT_FOUND
C13_SizeCheckNeverNotFound ==
    SizeChecked => rv # PKCS11_RV_NOT_FOUND

-----------------------------------------------------------------------------
(* Properties of the sanitizer *)

IndirectAttributes ==
    { PKCS11_CKA_WRAP_TEMPLATE, PKCS11_CKA_UNWRAP_TEMPLATE,
      PKCS11_CKA_DERIVE_TEMPLATE }

\* The sanitizer has run on a template that was not cut short
Sanitized == phase = "sanitized" /\ rv # PKCS11_BAD_PARAM

\* The template holds a template valued entry, each one carries a nested
\* template the sanitizer accepts, and the sanitizer accepts the entries
\* around them
WellFormedIndirect ==
    /\ \E i \in 1..Len(template) : template[i].id \in IndirectAttributes
    /\ \A i \in 1..Len(template) :
          template[i].id \in IndirectAttributes =>
             sanitize_client_object(
                 template[i].val,
                 template[i].size < AttrsHeadSize
                                    + attrs_size(template[i].val)).rc
             = PKCS11_CKR_OK
    /\ sanitize_class_and_type(NoObject, template).rc = PKCS11_CKR_OK
    /\ sanitize_boolprops(NoObject, template).rc = PKCS11_CKR_OK

\* Each template valued entry of the template is emitted under its id with
\* the sanitized nested template as its value
IndirectEmitted ==
    \A i \in 1..Len(template) :
       template[i].id \in IndirectAttributes =>
          \E j \in 1..Len(out) :
             /\ out[j].id = template[i].id
             /\ out[j].val = sanitize_client_object(template[i].val,
                                                     FALSE).dst

\* C14: a template with a well-formed template valued entry is rejected with
\* TEMPLATE_INCONSISTENT when its class is not a key class, and is accepted
\* with the sanitized nested template emitted under the same id otherwise
C14_IndirectOnlyForKeys ==
    (Sanitized /\ WellFormedIndirect) =>
        IF pkcs11_attr_class_is_key(
               class_and_type_scan(template, 1, PKCS11_CKO_UNDEFINED_ID,
                                   PKCS11_CKK_UNDEFINED_ID).class)
        THEN rv = PKCS11_CKR_OK /\ IndirectEmitted
        ELSE rv = PKCS11_CKR_TEMPLATE_INCONSISTENT

\* The attributes the sanitizer collapses to one entry
CollapsedAttributes ==
    { PKCS11_CKA_CLASS, PKCS11_CKA_KEY_TYPE } \cup
    { boolprop_attr[pos] : pos \in 1..Len(boolprop_attr) }

\* Two entries of the template have this id
Repeated(id) ==
    \E i, j \in 1..Len(template) :
       i # j /\ template[i].id = id /\ template[j].id = id

\* Two entries of the template have this id and different values
Conflicting(id) ==
    \E i, j \in 1..Len(template) :
       /\ template[i].id = id
       /\ template[j].id = id
       /\ template[i].val # template[j].val

\* The template holds classes, key types and boolean properties only, and
\* one of them more than once
RepeatedCollapsed ==
    /\ \A i \in 1..Len(template) : template[i].id \in CollapsedAttributes
    /\ \E id \in CollapsedAttributes : Repeated(id)

\* C15: a template in which CLASS, KEY_TYPE or a boolean property occurs more
\* than once is rejected with TEMPLATE_INCONSISTENT if and only if two
\* occurrences differ in value; when they all agree the template is accepted
\* and the attribute is emitted once
C15_RepeatedRejectedIffConflicting ==
    (Sanitized /\ RepeatedCollapsed) =>
        IF \E id \in CollapsedAttributes : Conflicting(id)
        THEN rv = PKCS11_CKR_TEMPLATE_INCONSISTENT
        ELSE /\ rv = PKCS11_CKR_OK
             /\ \A id \in CollapsedAttributes :
                   Repeated(id) => Count(out, id) = 1

\* The template holds a class and, besides it, only attributes the sanitizer
\* copies as they are
CopiedOnly ==
    /\ Len(template) > 0
    /\ template[1].id = PKCS11_CKA_CLASS
    /\ template[1].val # PKCS11_CKO_UNDEFINED_ID
    /\ \A i \in 2..Len(template) :
          /\ template[i].id \notin CollapsedAttributes \cup IndirectAttributes
          /\ valid_pkcs11_attribute_id(template[i].id, template[i].size)

\* C16: a template with two entries of one id other than CLASS, KEY_TYPE and
\* the boolean properties, and different values, is rejected with
\* TEMPLATE_INCONSISTENT
C16_ConflictingCopiedRejected ==
    (Sanitized /\ CopiedOnly
     /\ \E i \in 2..Len(template) : Conflicting(template[i].id))
    => rv = PKCS11_CKR_TEMPLATE_INCONSISTENT

\* C17: the sanitizer accepts the attribute list it made of a template and
\* makes the same attribute list of it
C17_SanitizeIdempotent ==
    phase = "sanitized_again" => rv = PKCS11_CKR_OK /\ temp = out

-----------------------------------------------------------------------------
(* Properties of the builder's allocations *)

\* C18: when create_attributes_from_template() fails, every attribute list
\* allocated during the call has been freed
C18_FailureRetainsNothing ==
    (phase = "done" /\ rv # PKCS11_CKR_OK) => heap = 0

-----------------------------------------------------------------------------
(* Properties of the missing ID *)

\* The step is a call of add_missing_attribute_id() on a pair of objects
PairCall == phase = "pair" /\ phase' = "pair_id" /\ key # NoObject

HasId(head) == get_attribute_ptr(head, PKCS11_CKA_ID).rc = PKCS11_CKR_OK

\* The two lists hold the same ID: the same size and the same bytes
SameId(head1, head2) ==
    /\ HasId(head1)
    /\ HasId(head2)
    /\ get_attribute_ptr(head1, PKCS11_CKA_ID)
       = get_attribute_ptr(head2, PKCS11_CKA_ID)

\* C19: a call of add_missing_attribute_id() on a pair that returns an error
\* has modified neither object
C19_FailedCallLeavesPair ==
    [][(PairCall /\ rv' # PKCS11_CKR_OK) => (out' = out /\ key' = key)]_vars

\* C20: after add_missing_attribute_id() returns OK for a pair of which an
\* object had no ID, the two objects hold the same ID: the ID of the object
\* that had one when one did, a generated ID of 16 bytes when none did
C20_PairSharesId ==
    [][(PairCall /\ rv' = PKCS11_CKR_OK /\ (~HasId(out) \/ ~HasId(key)))
       => /\ SameId(out', key')
          /\ HasId(out) => out' = out
          /\ HasId(key) => key' = key
          /\ (~HasId(out) /\ ~HasId(key))
             => /\ get_attribute_ptr(out', PKCS11_CKA_ID).size = 16
                /\ get_attribute_ptr(out', PKCS11_CKA_ID).val
                   \in GeneratedIds]_vars

\* A public key and a private key without ID are left with the same
\* generated ID
C20_Witness ==
    /\ phase = "pair_id"
    /\ rv = PKCS11_CKR_OK
    /\ get_class(out) = PKCS11_CKO_PUBLIC_KEY
    /\ get_class(key) = PKCS11_CKO_PRIVATE_KEY
    /\ SameId(out, key)
    /\ get_attribute_ptr(key, PKCS11_CKA_ID).val \in GeneratedIds

-----------------------------------------------------------------------------
(* Properties of the token checks *)

\* The object has this boolean attribute with this value
HasBool(head, id, value) ==
    \E i \in 1..Len(head) : head[i].id = id /\ head[i].val = value

\* C21: for a private key component, attribute_is_exportable() is true
\* exactly when the object has SENSITIVE=false and EXTRACTABLE=true, so it is
\* false whenever SENSITIVE is true or EXTRACTABLE is false
C21_ComponentsExportable ==
    (phase = "export_checked" /\ template[1].id \in PrivateKeyComponents)
    => (rv = (/\ HasBool(out, PKCS11_CKA_SENSITIVE, PKCS11_FALSE)
              /\ HasBool(out, PKCS11_CKA_EXTRACTABLE, PKCS11_TRUE)))

C21_Witness ==
    /\ phase = "export_checked"
    /\ template[1].id = PKCS11_CKA_PRIME_1
    /\ get_class(out) = PKCS11_CKO_PRIVATE_KEY
    /\ HasBool(out, PKCS11_CKA_SENSITIVE, PKCS11_TRUE)
    /\ HasBool(out, PKCS11_CKA_EXTRACTABLE, PKCS11_TRUE)
    /\ rv = FALSE

IntegrityHolds ==
    /\ ~(get_bool(out, PKCS11_CKA_NEVER_EXTRACTABLE)
         /\ get_bool(out, PKCS11_CKA_EXTRACTABLE))
    /\ get_bool(out, PKCS11_CKA_ALWAYS_SENSITIVE)
       => get_bool(out, PKCS11_CKA_SENSITIVE)

TrustedAllowed ==
    get_bool(out, PKCS11_CKA_TRUSTED) => session_state.login = "so"

TokenAllowed ==
    get_bool(out, PKCS11_CKA_TOKEN) => session_state.read_write

C23_PublicSessionAccess ==
    (phase = "access_checked" /\ session_state.login = "public") =>
        /\ get_class(out) = PKCS11_CKO_PRIVATE_KEY
           => rv = PKCS11_CKR_KEY_FUNCTION_NOT_PERMITTED
        /\ get_class(out) \in { PKCS11_CKO_DATA, PKCS11_CKO_SECRET_KEY,
                                PKCS11_CKO_PUBLIC_KEY }
           => /\ HasBool(out, PKCS11_CKA_PRIVATE, PKCS11_TRUE)
                 => rv = PKCS11_CKR_KEY_FUNCTION_NOT_PERMITTED
              /\ HasBool(out, PKCS11_CKA_PRIVATE, PKCS11_FALSE)
                 => rv = PKCS11_CKR_OK

C23_Witness ==
    /\ phase = "access_checked"
    /\ session_state.login = "public"
    /\ get_class(out) = PKCS11_CKO_PRIVATE_KEY
    /\ HasBool(out, PKCS11_CKA_PRIVATE, PKCS11_FALSE)
    /\ rv = PKCS11_CKR_KEY_FUNCTION_NOT_PERMITTED

-----------------------------------------------------------------------------
(* Properties of the handle database *)

\* The last call was a handle_put() or a handle_lookup()
HandleCall ==
    /\ db.state # "none"
    /\ db.call.op \in { "handle_put", "handle_lookup" }

\* C27: handle_lookup() and handle_put() called with a handle outside
\* 1..max_ptrs-1 resolve to index 0 and return NULL without an access outside
\* the ptrs array
C27_InvalidHandleIsNull ==
    (HandleCall /\ db.call.handle \notin 1..(db.call.max_ptrs - 1))
    => /\ db.call.index = 0
       /\ ~db.call.outside
       /\ rv = NULL

\* Every handle handed out is inside the array and looks up to the pointer
\* registered under it, NULL once it is put
LookupAgrees(db_) ==
    \A h \in DOMAIN db_.handed :
        /\ InsidePtrs(db_, handle_index(db_, h))
        /\ handle_lookup(db_, h) = db_.handed[h]

-----------------------------------------------------------------------------
(* The token's table against the PKCS#11 table *)

\* C24: a mechanism the token's table lists with a flag set is in the PKCS#11
\* table and the token's flags for it are among those PKCS#11 allows, so the
\* lookup of its flags does not fail its assertion
C24_TokenTableComplies ==
    (phase = "checked" /\ token_supported_functions # 0)
    => /\ mechanism_is_valid(mechanism)
       /\ BitAndNot(token_supported_functions, allowed_functions) = 0
       /\ rv # PANIC

C24_Witness ==
    /\ phase = "checked"
    /\ step = PKCS11_FUNC_STEP_INIT
    /\ function = PKCS11_FUNCTION_WRAP
    /\ mechanism = PKCS11_CKM_AES_ECB
    /\ token_supported_functions = CKFM_CIPHER
    /\ allowed_functions = CKFM_CIPHER_WRAP_DERIVE
    /\ rv = PKCS11_CKR_KEY_FUNCTION_NOT_PERMITTED

-----------------------------------------------------------------------------
(* Properties of the attributes the token sets *)

\* C25: an object built by COPY from a parent whose SENSITIVE is true has
\* SENSITIVE true, whatever the template
C25_CopyKeepsSensitive ==
    (Built /\ function = PKCS11_FUNCTION_COPY
           /\ get_bool(parent, PKCS11_CKA_SENSITIVE))
    => get_bool(out, PKCS11_CKA_SENSITIVE)

\* C26: the object built from a template is the object built, for the same
\* parent and function, from the template without its LOCAL,
\* ALWAYS_SENSITIVE and NEVER_EXTRACTABLE entries, so that two templates that
\* differ only in such entries yield the same object
C26_TokenSetNotFromClient ==
    Built =>
        With(create_attributes_from_template(WithoutTokenSet(template),
                                             FALSE, parent, function),
             LAMBDA r : r.rv = PKCS11_CKR_OK /\ r.out = out)

C26_Witness ==
    /\ Built
    /\ function = PKCS11_FUNCTION_DERIVE
    /\ get_bool(parent, PKCS11_CKA_LOCAL)
    /\ Len(template) = 4
    /\ template[3] = Attr(PKCS11_CKA_LOCAL, 1, PKCS11_TRUE)
    /\ template[4] = Attr(PKCS11_CKA_NEVER_EXTRACTABLE, 1, PKCS11_TRUE)
    /\ ~get_bool(out, PKCS11_CKA_LOCAL)
    /\ ~get_bool(out, PKCS11_CKA_NEVER_EXTRACTABLE)

\* C29: a key object built by GENERATE_PAIR or IMPORT has ALWAYS_SENSITIVE
\* and NEVER_EXTRACTABLE, both false, whatever its SENSITIVE and EXTRACTABLE
C29_ImportedAndPairNeverAlways ==
    (Built /\ function \in { PKCS11_FUNCTION_GENERATE_PAIR,
                             PKCS11_FUNCTION_IMPORT }
           /\ pkcs11_attr_class_is_key(get_class(out)))
    => /\ HasBool(out, PKCS11_CKA_ALWAYS_SENSITIVE, PKCS11_FALSE)
       /\ HasBool(out, PKCS11_CKA_NEVER_EXTRACTABLE, PKCS11_FALSE)
       /\ ~get_bool(out, PKCS11_CKA_ALWAYS_SENSITIVE)
       /\ ~get_bool(out, PKCS11_CKA_NEVER_EXTRACTABLE)

C29_Witness ==
    /\ Built
    /\ function = PKCS11_FUNCTION_GENERATE_PAIR
    /\ get_class(out) = PKCS11_CKO_PRIVATE_KEY
    /\ ~get_bool(out, PKCS11_CKA_EXTRACTABLE)
    /\ HasBool(out, PKCS11_CKA_NEVER_EXTRACTABLE, PKCS11_FALSE)

-----------------------------------------------------------------------------
(* Properties of the driver probe loop *)

\* process_probe_list() has returned or panicked
ProbeDone == dt.state \in { "returned", "panic" }

\* A round that leaves the loop running has moved an element to the ready
\* list or seen one added; the loop's panic (the one with nothing left to
\* probe in the round, the other being probe_driver_node()'s) comes after a
\* round in which every probe returned TEE_ERROR_BUSY and none was added;
\* TEE_SUCCESS is returned on an empty probe list
ProbeRounds ==
    /\ (dt.state = "round" /\ dt.round.todo = 0
        /\ ~(dt.round.all_deferred
             /\ dt.round.added_count = dt.added_count))
       => \/ Len(dt.ready) > dt.round.ready_count
          \/ dt.added_count > dt.round.added_count
    /\ (dt.state = "round" /\ ~dt.round.all_deferred)
       => Len(dt.ready) > dt.round.ready_count
    /\ (dt.state = "panic" /\ dt.round.todo = 0)
       => /\ dt.round.all_deferred
          /\ dt.round.one_deferred
          /\ dt.round.added_count = dt.added_count
          /\ dt.probe # << >>
    /\ dt.state = "returned" => (rv = TEE_SUCCESS /\ dt.probe = << >>)
    /\ rv = TEE_SUCCESS => dt.state = "returned"

=============================================================================
